---- MODULE Spec2Model ----
(***************************************************************************)
(* Model of the fifo-dev-dsl "dia" engine: the DSL tree, the resumable     *)
(* Resolver stack machine (resolution/resolver.py), the resolution context *)
(* (resolution/context.py), the per-node hooks (dsl/elements/*.py) and the *)
(* Evaluator stack machine (runtime/evaluator.py), driven by a host loop.  *)
(***************************************************************************)
EXTENDS Integers, Sequences, FiniteSets, TLC

(***************************************************************************)
(* Bounds of the model.                                                    *)
(***************************************************************************)
\* number of oracle answers parsed as DSL that one run may consume
MaxOracle == 2
\* number of host recovery rounds (evaluate -> new Resolver -> evaluate)
MaxRounds == 1
\* number of times the host repeats a call of the previous step (the same Interaction passed
\* again, or step(None) called again)
MaxRetries == 1
\* number of calls of insert_child a host makes on a tree it has evaluated
MaxInserts == 1

(***************************************************************************)
(* DSL nodes.  Every node is a record of one shape:                        *)
(*   k    the variant (class name)                                         *)
(*   id   the identity of the Python object (used by "is" comparisons)     *)
(*   name intent / slot name, question, query, error message, fuzzy text,  *)
(*        literal of a Value that is no number                             *)
(*   val  literal of a Value (as the integer a cast to int gives, or       *)
(*        NotANumber), stored result of an IntentEvaluatedSuccess          *)
(*   ch   get_children(), in order                                         *)
(*   aux  payload that is not a child: new_dsl of an AbortWithNewDsl       *)
(***************************************************************************)
NotANumber == 0 - 1
NoneVal == 0 - 2

Node(k, id, name, val, ch, aux) ==
    [k |-> k, id |-> id, name |-> name, val |-> val, ch |-> ch, aux |-> aux]

Value(id, v) == Node("Value", id, "", v, <<>>, <<>>)
\* Value("unknown")
UnknownValue(id) == Node("Value", id, "unknown", NotANumber, <<>>, <<>>)
FuzzyValue(id, text) == Node("FuzzyValue", id, text, NoneVal, <<>>, <<>>)
Ask(id, q) == Node("Ask", id, q, NoneVal, <<>>, <<>>)
QueryFill(id, q) == Node("QueryFill", id, q, NoneVal, <<>>, <<>>)
QueryUser(id, q) == Node("QueryUser", id, q, NoneVal, <<>>, <<>>)
Abort(id) == Node("Abort", id, "", NoneVal, <<>>, <<>>)
AbortWithNewDsl(id, newDsl) == Node("AbortWithNewDsl", id, "", NoneVal, <<>>, <<newDsl>>)
Slot(id, name, value) == Node("Slot", id, name, NoneVal, <<value>>, <<>>)
Intent(id, name, slots) == Node("Intent", id, name, NoneVal, slots, <<>>)
ReturnValue(id, intent) == Node("ReturnValue", id, "", NoneVal, <<intent>>, <<>>)
PropagateSlots(id, slots) == Node("PropagateSlots", id, "", NoneVal, slots, <<>>)
ListElement(id, items) == Node("ListElement", id, "", NoneVal, items, <<>>)
QueryGather(id, q) == Node("QueryGather", id, q, NoneVal, <<>>, <<>>)
\* a ListValue keeps its values in ch; it is no container of the resolver's traversal
ListValue(id, values) == Node("ListValue", id, "", NoneVal, values, <<>>)
IntentEvaluatedSuccess(id, intent, v) ==
    Node("IntentEvaluatedSuccess", id, "", v, <<intent>>, <<>>)
IntentRuntimeErrorResolver(id, intent, msg) ==
    Node("IntentRuntimeErrorResolver", id, msg, NoneVal, <<intent>>, <<>>)

\* DslContainerBase subclasses: is_leaf() is always False for them
ContainerKinds == {"Slot", "Intent", "PropagateSlots", "ListElement"}

\* DslBase.is_leaf / DslContainerBase.is_leaf
is_leaf(n) ==
    IF n.k \in ContainerKinds THEN FALSE ELSE n.k = "ListValue" \/ Len(n.ch) = 0

\* classes that override is_resolved() to return False
UnresolvedKinds ==
    {"Ask", "QueryFill", "QueryUser", "QueryGather", "Abort", "AbortWithNewDsl",
     "IntentRuntimeErrorResolver"}

RECURSIVE is_resolved(_)
\* DslBase.is_resolved (True), the overrides (False), and
\* DslContainerBase.is_resolved, ListValue.is_resolved (all children resolved)
is_resolved(n) ==
    IF n.k \in UnresolvedKinds THEN FALSE
    ELSE IF n.k \in ContainerKinds \/ n.k = "ListValue"
         THEN \A i \in 1..Len(n.ch) : is_resolved(n.ch[i])
         ELSE TRUE

RECURSIVE HasPlaceholder(_)
\* an unresolved placeholder occurs somewhere in the subtree (children and payload)
HasPlaceholder(n) ==
    \/ n.k \in UnresolvedKinds
    \/ \E i \in 1..Len(n.ch) : HasPlaceholder(n.ch[i])
    \/ \E i \in 1..Len(n.aux) : HasPlaceholder(n.aux[i])

(***************************************************************************)
(* Tree access by path.  A path is the sequence of 1-based child indexes   *)
(* from the root; it stands for the object reference held by a frame.      *)
(***************************************************************************)
RECURSIVE NodeAt(_, _)
NodeAt(t, p) == IF Len(p) = 0 THEN t ELSE NodeAt(t.ch[Head(p)], Tail(p))

RECURSIVE ReplaceAt(_, _, _)
ReplaceAt(t, p, new) ==
    IF Len(p) = 0 THEN new
    ELSE [t EXCEPT !.ch = [@ EXCEPT ![Head(p)] = ReplaceAt(@, Tail(p), new)]]

RemoveIdx(s, i) == [j \in 1..(Len(s) - 1) |-> IF j < i THEN s[j] ELSE s[j + 1]]

\* the 1-based position a Python list of length len gives to the index i - 1 (a negative
\* index counts from the end), 0 when the index is out of range
PyIndex(len, i) ==
    IF i >= 1 /\ i <= len THEN i
    ELSE IF i <= 0 /\ i + len >= 1 THEN i + len
    ELSE 0

\* the result of a mutation of the tree: the tree, and "" or the exception raised
Mutated(t) == [tree |-> t, err |-> ""]
NotMutated(t, e) == [tree |-> t, err |-> e]

\* strict_cast(self._expected_type(), new_child): make_dsl_container(Slot) for Intent and
\* PropagateSlots, make_dsl_container(DslBase) for Slot and ListElement
AcceptsChild(n, new) == n.k \in {"Intent", "PropagateSlots"} => new.k = "Slot"

\* the RuntimeError of DslBase.update_child and DslBase.remove_child
LeafErrors ==
    {"RuntimeError: leaf node cannot update children",
     "RuntimeError: leaf node cannot remove children"}

\* DslBase.update_child (raises) and DslContainerBase.update_child on the node at path p
\* (index i is 1-based here)
update_child(t, p, i, new) ==
    LET n == NodeAt(t, p)
        at == PyIndex(Len(n.ch), i)
    IN IF n.k \notin ContainerKinds
       THEN NotMutated(t, "RuntimeError: leaf node cannot update children")
       ELSE IF ~AcceptsChild(n, new) THEN NotMutated(t, "TypeError: strict_cast")
       ELSE IF at = 0 THEN NotMutated(t, "IndexError: list assignment index out of range")
       ELSE Mutated(ReplaceAt(t, p \o <<at>>, new))

\* DslBase.remove_child (raises) and DslContainerBase.remove_child on the node at path p
remove_child(t, p, i) ==
    LET n == NodeAt(t, p)
        at == PyIndex(Len(n.ch), i)
    IN IF n.k \notin ContainerKinds
       THEN NotMutated(t, "RuntimeError: leaf node cannot remove children")
       ELSE IF at = 0 THEN NotMutated(t, "IndexError: pop index out of range")
       ELSE Mutated(ReplaceAt(t, p, [n EXCEPT !.ch = RemoveIdx(@, at)]))

\* the 1-based position list.insert gives to the new item of a list of length len for the
\* index i - 1: a negative index counts from the end, and an index beyond either end is
\* the end it is beyond
PyInsertIndex(len, i) ==
    LET at == IF i >= 1 THEN i ELSE i + len
    IN IF at < 1 THEN 1 ELSE IF at > len + 1 THEN len + 1 ELSE at

InsertAt(s, at, new) == SubSeq(s, 1, at - 1) \o <<new>> \o SubSeq(s, at, Len(s))

\* DslBase.insert_child (raises) and DslContainerBase.insert_child on the node at path p
insert_child(t, p, i, new) ==
    LET n == NodeAt(t, p)
    IN IF n.k \notin ContainerKinds
       THEN NotMutated(t, "RuntimeError: leaf node cannot insert children")
       ELSE IF ~AcceptsChild(n, new) THEN NotMutated(t, "TypeError: strict_cast")
       ELSE Mutated(ReplaceAt(t, p,
                [n EXCEPT !.ch = InsertAt(@, PyInsertIndex(Len(@), i), new)]))

\* get_children(): the items of a container, the wrapped intent of a ReturnValue,
\* IntentEvaluatedSuccess or IntentRuntimeErrorResolver, nothing for any other node
\* (a ListValue keeps its values to itself)
get_children(n) == IF n.k = "ListValue" THEN <<>> ELSE n.ch

RECURSIVE NodeIds(_)
\* ids of all nodes of a subtree reachable through get_children()
NodeIds(n) ==
    {n.id} \cup UNION {NodeIds(get_children(n)[i]) : i \in 1..Len(get_children(n))}

(***************************************************************************)
(* Resolution context (resolution/context.py).  The record R threads the   *)
(* mutable state of one resolver through the hooks of one machine          *)
(* iteration:                                                              *)
(*   rt    Resolver._runtime_context                                        *)
(*   tree  Resolver._root_dsl_elements                                     *)
(*   cs    ResolutionContext.call_stack, frames [path, idx]                *)
(*   ss    ResolutionContext._state_stack, frames [intent, slot, other]    *)
(*   pend  ResolutionContext._propagate_slots                              *)
(*   qna   ResolutionContext.questions_being_clarified                     *)
(*   log   ResolutionContext.llm_call_logs (the system prompt of each)     *)
(*   ia    the Interaction passed to the running step (host object)        *)
(*   err   "" or the exception that left the step                          *)
(*   nid   next unused object identity                                     *)
(*   hooks, alog, mlog   history: hook calls, last abort unwind, last      *)
(*         propagated-slot merge                                           *)
(***************************************************************************)
Top(s) == s[Len(s)]
Pop(s) == SubSeq(s, 1, Len(s) - 1)
SetTop(s, e) == [s EXCEPT ![Len(s)] = e]

NoPath == <<0>>
NoOther == [isNone |-> TRUE, names |-> {}]
\* _ResolutionState(None, None, None)
NoneState == [intent |-> NoPath, slot |-> NoPath, other |-> NoOther]
\* ResolutionContextStackElement(obj, idx)
Frame(path, idx) == [path |-> path, idx |-> idx]

NoInteraction == [none |-> TRUE, req |-> 0, consumed |-> FALSE]
NoRequest == [requester |-> 0, message |-> "", slot |-> NoPath]
NoAbortLog == [n |-> 0, ids |-> <<>>, kinds |-> <<>>, idx |-> <<>>, stop |-> 0,
               kidsBefore |-> <<>>, kidsAfter |-> <<>>, replaced |-> FALSE, newId |-> 0]
NoMergeLog == [n |-> 0, before |-> <<>>, after |-> <<>>, queue |-> <<>>, pendAfter |-> <<>>]

Raise(R, e) == [R EXCEPT !.err = e]
Hook(R, h, n) ==
    [R EXCEPT !.hooks = Append(@, [h |-> h, id |-> n.id, k |-> n.k, res |-> ""])]

\* ResolutionContext.entering_intent
entering_intent(R, path) ==
    [R EXCEPT !.ss = Append(@, [intent |-> path, slot |-> NoPath, other |-> NoOther])]

\* ResolutionContext.exiting_intent
exiting_intent(R) ==
    LET popped == IF Len(R.ss) > 0 THEN Pop(R.ss) ELSE R.ss
    IN [R EXCEPT !.ss = IF Len(popped) = 0 THEN <<NoneState>> ELSE popped]

\* the variant of the reset that leaves the state stack as it is
KeepState(R) == R

\* ResolutionContext.reset_state
reset_state(R) == [R EXCEPT !.ss = <<NoneState>>]

\* ResolutionContext.add_propagated_slot
add_propagated_slot(R, ps) == [R EXCEPT !.pend = Append(@, ps)]

(***************************************************************************)
(* PropagateSlots.to_dict: keys in order of first insertion, each with the *)
(* value of its last occurrence.                                           *)
(***************************************************************************)
DictKeys(slots) ==
    LET first(i) == \A j \in 1..(i - 1) : slots[j].name # slots[i].name
        RECURSIVE keep(_)
        keep(i) == IF i > Len(slots) THEN <<>>
                   ELSE (IF first(i) THEN <<slots[i].name>> ELSE <<>>) \o keep(i + 1)
    IN keep(1)

DictValue(slots, name) ==
    LET last == CHOOSE i \in 1..Len(slots) :
                    /\ slots[i].name = name
                    /\ \A j \in (i + 1)..Len(slots) : slots[j].name # name
    IN slots[last].ch[1]

\* the variant of the merge that appends every propagated slot (never overwrites)
MergeOneAppendOnly(intent, ps, nid) ==
    LET keys == DictKeys(ps.ch)
        appended == [j \in 1..Len(keys) |->
                        Slot(nid + j - 1, keys[j], DictValue(ps.ch, keys[j]))]
    IN [node |-> [intent EXCEPT !.ch = @ \o appended], nid |-> nid + Len(keys)]

\* body of the loop of Intent._propagate_slots for one pending PropagateSlots
MergeOne(intent, ps, nid) ==
    LET keys == DictKeys(ps.ch)
        keyset == {keys[i] : i \in 1..Len(keys)}
        items == [i \in 1..Len(intent.ch) |->
                    IF intent.ch[i].name \in keyset
                    THEN [intent.ch[i] EXCEPT !.ch = <<DictValue(ps.ch, intent.ch[i].name)>>]
                    ELSE intent.ch[i]]
        updated == {intent.ch[i].name : i \in 1..Len(intent.ch)} \cap keyset
        fresh == SelectSeq(keys, LAMBDA nm : nm \notin updated)
        appended == [j \in 1..Len(fresh) |->
                        Slot(nid + j - 1, fresh[j], DictValue(ps.ch, fresh[j]))]
    IN [node |-> [intent EXCEPT !.ch = items \o appended], nid |-> nid + Len(fresh)]

RECURSIVE MergeAll(_, _, _)
MergeAll(intent, queue, nid) ==
    IF Len(queue) = 0 THEN [node |-> intent, nid |-> nid]
    ELSE LET m == MergeOne(intent, Head(queue), nid)
         IN MergeAll(m.node, Tail(queue), m.nid)

\* Intent._propagate_slots
propagate_slots(R, path) ==
    IF Top(R.ss).slot # NoPath THEN Raise(R, "AssertionError: slot is not None")
    ELSE LET intent == NodeAt(R.tree, path)
             m == MergeAll(intent, R.pend, R.nid)
             R1 == [R EXCEPT !.tree = ReplaceAt(@, path, m.node),
                             !.nid = m.nid,
                             !.pend = <<>>]
         IN [R1 EXCEPT !.mlog = [n |-> @.n + 1, before |-> intent.ch,
                                 after |-> NodeAt(R1.tree, path).ch,
                                 queue |-> R.pend, pendAfter |-> R1.pend]]

\* fuzzy texts that hold a quote character
QuotedFuzzyTexts == {"a\"b"}

RECURSIVE RenderRaises(_)
\* to_dsl_representation() of the node raises: FuzzyValue.to_dsl_representation raises a
\* ValueError on a text with a quote, and the renderers of Slot, Intent, the containers,
\* ReturnValue and AbortWithNewDsl render what they hold
RenderRaises(n) ==
    CASE n.k = "FuzzyValue" -> n.name \in QuotedFuzzyTexts
      [] n.k \in {"Slot", "Intent", "PropagateSlots", "ListElement", "ReturnValue"} ->
           \E i \in 1..Len(n.ch) : RenderRaises(n.ch[i])
      [] n.k = "AbortWithNewDsl" -> \E i \in 1..Len(n.aux) : RenderRaises(n.aux[i])
      [] OTHER -> FALSE

(***************************************************************************)
(* The four hooks, dispatched on the variant.                              *)
(***************************************************************************)
\* DslBase.pre_resolution, Intent.pre_resolution, Slot.pre_resolution
pre_resolution(R, path) ==
    LET n == NodeAt(R.tree, path)
        R1 == Hook(R, "pre", n)
    IN CASE n.k = "Intent" -> entering_intent(R1, path)
         [] n.k = "Slot" ->
              IF Top(R1.ss).intent = NoPath
              THEN Raise(R1, "AssertionError: intent is None")
              ELSE LET intent == NodeAt(R1.tree, Top(R1.ss).intent)
                       siblings == {i \in 1..Len(intent.ch) : intent.ch[i].name # n.name}
                       \* the siblings whose value slot.value.to_dsl_representation() raises on
                       raising == {i \in siblings : RenderRaises(intent.ch[i].ch[1])}
                       stop == IF raising = {} THEN Len(intent.ch) + 1
                               ELSE CHOOSE i \in raising : \A j \in raising : i <= j
                       others == {intent.ch[i].name : i \in {j \in siblings : j < stop}}
                       R2 == [R1 EXCEPT !.ss = SetTop(@, [Top(@) EXCEPT
                                          !.slot = path,
                                          !.other = [isNone |-> FALSE, names |-> others]])]
                   IN IF raising = {} THEN R2
                      ELSE Raise(R2, "ValueError: fuzzy value contains quotes")
         [] OTHER -> R1

\* DslBase.post_resolution, Intent.post_resolution, Slot.post_resolution
post_resolution(R, path) ==
    LET n == NodeAt(R.tree, path)
        R1 == Hook(R, "post", n)
    IN CASE n.k = "Intent" -> exiting_intent(R1)
         [] n.k = "Slot" ->
              [R1 EXCEPT !.ss = SetTop(@, [Top(@) EXCEPT !.slot = NoPath, !.other = NoOther])]
         [] OTHER -> R1

\* DslBase.on_reentry_resolution, Intent.on_reentry_resolution
on_reentry_resolution(R, path) ==
    LET n == NodeAt(R.tree, path)
        R1 == Hook(R, "reentry", n)
    IN IF n.k = "Intent" THEN propagate_slots(R1, path) ELSE R1

(***************************************************************************)
(* do_resolution of each variant.  ans is what the oracle returns for the  *)
(* call this invocation makes (if it makes one).  The result is the pair   *)
(* of the updated state and the ResolutionOutcome.                         *)
(***************************************************************************)
Outcome(result, nodes, req) == [result |-> result, nodes |-> nodes, req |-> req]
Unchanged == Outcome("UNCHANGED", <<>>, NoRequest)

\* text standing for a call of the oracle that raises instead of returning (transport)
OracleFailure == "<oracle call failed>"

\* an answer of the oracle that parse_dsl rejects: the argument of ASK is not quoted
\* ("String must start and end with a double quote")
RejectedText == "ASK(x)"

\* the variant of the helper that keeps the latest question and answer only
AskHelperForgetting(R, n, prompt, question, ans) ==
    IF ans.text = OracleFailure
    THEN [R |-> Raise(R, "OracleError"), out |-> Outcome("UNCHANGED", <<>>, NoRequest)]
    ELSE IF ans.text = RejectedText
    THEN [R |-> Raise([R EXCEPT !.log = Append(@, prompt),
                                !.qna = <<[q |-> question, a |-> ans.text]>>],
                      "ValueError: parse_dsl"),
          out |-> Outcome("UNCHANGED", <<>>, NoRequest)]
    ELSE
    [R |-> [R EXCEPT !.log = Append(@, prompt),
                     !.qna = <<[q |-> question, a |-> ans.text]>>,
                     !.nid = @ + ans.size],
     out |-> Outcome("NEW_DSL_NODES", ans.nodes, NoRequest)]

\* helper.ask_helper_no_interaction: oracle call, log, Q&A, parse_dsl
ask_helper_no_interaction(R, n, prompt, question, ans) ==
    IF ans.text = OracleFailure
    THEN [R |-> Raise(R, "OracleError"), out |-> Outcome("UNCHANGED", <<>>, NoRequest)]
    ELSE IF ans.text = RejectedText
    \* parse_dsl raises once the call is logged and the question recorded
    THEN [R |-> Raise([R EXCEPT !.log = Append(@, prompt),
                                !.qna = Append(@, [q |-> question, a |-> ans.text])],
                      "ValueError: parse_dsl"),
          out |-> Outcome("UNCHANGED", <<>>, NoRequest)]
    ELSE
    [R |-> [R EXCEPT !.log = Append(@, prompt),
                     !.qna = Append(@, [q |-> question, a |-> ans.text]),
                     !.nid = @ + ans.size],
     out |-> Outcome("NEW_DSL_NODES", ans.nodes, NoRequest)]

\* the variant of the common body that takes the answer of any interaction it is given
InteractiveDoAnyRequester(R, n, prompt, message, ans) ==
    IF R.ia.none
    THEN [R |-> R,
          out |-> Outcome("INTERACTION_REQUESTED", <<>>,
                          [requester |-> n.id, message |-> message, slot |-> Top(R.ss).slot])]
    ELSE ask_helper_no_interaction([R EXCEPT !.ia.consumed = TRUE], n, prompt,
                                        message, ans)

\* common body of Ask / QueryUser (re-entry) / IntentRuntimeErrorResolver.do_resolution
InteractiveDo(R, n, prompt, message, ans) ==
    IF R.ia.none \/ R.ia.req # n.id
    THEN [R |-> R,
          out |-> Outcome("INTERACTION_REQUESTED", <<>>,
                          [requester |-> n.id, message |-> message, slot |-> Top(R.ss).slot])]
    ELSE IF R.ia.consumed
         THEN [R |-> Raise(R, "AssertionError: interaction consumed"), out |-> Unchanged]
         ELSE ask_helper_no_interaction([R EXCEPT !.ia.consumed = TRUE], n, prompt,
                                        message, ans)

\* Ask.do_resolution
AskDo(R, n, ans) == InteractiveDo(R, n, "slot_resolver", n.name, ans)

\* IntentRuntimeErrorResolver.do_resolution
IntentRuntimeErrorResolverDo(R, n, ans) ==
    InteractiveDo(R, n, "error_resolver", n.name, ans)

\* LLMRuntimeContext(tools, query_sources) as its constructor leaves it: the tools, the
\* query sources and the prompts, and none of the attributes base_model,
\* intent_sequencer_adapter, container_name and host that the calls of the oracle read
LLMRuntimeContext == [base_model |-> FALSE]

\* the context object on which the host has set these attributes
WithModelServer(rt) == [rt EXCEPT !.base_model = TRUE]

\* the runtime contexts a host hands to its resolvers and evaluators
RuntimeContexts == {LLMRuntimeContext, WithModelServer(LLMRuntimeContext)}

\* "model=runtime_context.base_model" on a context without the attribute
NoBaseModel == "AttributeError: 'LLMRuntimeContext' object has no attribute 'base_model'"

\* the system prompt QueryUser.do_resolution hands to the helper on reentry
QueryUserPrompt(R) ==
    IF Top(R.ss).intent # NoPath /\ Top(R.ss).slot # NoPath
    THEN "slot_resolver" ELSE "intent_sequencer"

\* the variant of QueryUser.do_resolution that asks the query-user oracle on every entry
QueryUserDoAsking(R, n, ans) ==
    IF ~R.rt.base_model THEN [R |-> Raise(R, NoBaseModel), out |-> Unchanged]
    ELSE IF ans.text = OracleFailure
    THEN [R |-> Raise(R, "OracleError"), out |-> Unchanged]
    ELSE [R |-> [R EXCEPT !.log = Append(@, "QueryUser")],
          out |-> Outcome("INTERACTION_REQUESTED", <<>>,
                          [requester |-> n.id,
                           message |-> IF ans.text = "malformed" THEN "unknown" ELSE ans.text,
                           slot |-> Top(R.ss).slot])]

\* QueryUser.do_resolution
QueryUserDo(R, n, ans) ==
    IF ~R.ia.none /\ R.ia.req = n.id
    THEN IF R.ia.consumed
         THEN [R |-> Raise(R, "AssertionError: interaction consumed"), out |-> Unchanged]
         ELSE ask_helper_no_interaction([R EXCEPT !.ia.consumed = TRUE], n,
                                        QueryUserPrompt(R), R.req.message, ans)
    ELSE IF ~R.rt.base_model THEN [R |-> Raise(R, NoBaseModel), out |-> Unchanged]
    ELSE IF ans.text = OracleFailure
         THEN [R |-> Raise(R, "OracleError"), out |-> Unchanged]
    ELSE [R |-> [R EXCEPT !.log = Append(@, "QueryUser")],
          out |-> Outcome("INTERACTION_REQUESTED", <<>>,
                          [requester |-> n.id,
                           message |-> IF ans.text = "malformed" THEN "unknown" ELSE ans.text,
                           slot |-> Top(R.ss).slot])]

\* the variant of QueryFill.do_resolution that fails on an answer without the three fields
QueryFillDoStrict(R, n, ans) ==
    LET R1 == [R EXCEPT !.log = Append(@, "QueryFill")]
    IN IF ~R.rt.base_model THEN [R |-> Raise(R, NoBaseModel), out |-> Unchanged]
       ELSE IF ans.text = OracleFailure
       THEN [R |-> Raise(R, "OracleError"), out |-> Unchanged]
       ELSE IF ans.text \in {"abort", "malformed"}
       THEN [R |-> Raise(R1, "RuntimeError: QUERY_FILL aborted"), out |-> Unchanged]
       ELSE [R |-> [R1 EXCEPT !.nid = @ + 1],
             out |-> Outcome("NEW_DSL_NODES", <<Value(R1.nid, ans.v)>>, NoRequest)]

\* QueryFill.do_resolution
QueryFillDo(R, n, ans) ==
    LET R1 == [R EXCEPT !.log = Append(@, "QueryFill")]
    IN IF ~R.rt.base_model THEN [R |-> Raise(R, NoBaseModel), out |-> Unchanged]
       ELSE IF ans.text = OracleFailure
       THEN [R |-> Raise(R, "OracleError"), out |-> Unchanged]
       ELSE IF ans.text = "abort"
       THEN [R |-> Raise(R1, "RuntimeError: QUERY_FILL aborted"), out |-> Unchanged]
       ELSE IF ans.text = "malformed"
       THEN [R |-> [R1 EXCEPT !.nid = @ + 1],
             out |-> Outcome("NEW_DSL_NODES", <<UnknownValue(R1.nid)>>, NoRequest)]
       ELSE [R |-> [R1 EXCEPT !.nid = @ + 1],
             out |-> Outcome("NEW_DSL_NODES", <<Value(R1.nid, ans.v)>>, NoRequest)]

\* QueryGather.do_resolution as the resolver calls it, "current.obj.do_resolution(*args)"
\* with the three arguments of args: the override takes a fourth parameter
\* (abort_behavior), so the call raises a TypeError before the body is entered
QueryGatherDo(R, n) ==
    [R |-> Raise(R, "TypeError: do_resolution() missing 1 required positional argument"),
     out |-> Unchanged]

\* dispatch; every other variant inherits DslBase.do_resolution
do_resolution(R, path, ans) ==
    LET n == NodeAt(R.tree, path)
        R1 == Hook(R, "do", n)
    IN CASE n.k = "Ask" -> AskDo(R1, n, ans)
         [] n.k = "QueryGather" -> QueryGatherDo(R, n)
         [] n.k = "IntentRuntimeErrorResolver" -> IntentRuntimeErrorResolverDo(R1, n, ans)
         [] n.k = "QueryUser" -> QueryUserDo(R1, n, ans)
         [] n.k = "QueryFill" -> QueryFillDo(R1, n, ans)
         [] OTHER -> [R |-> R1, out |-> Unchanged]

(***************************************************************************)
(* The resolver stack machine (resolution/resolver.py).                    *)
(***************************************************************************)
AbortKinds == {"Abort", "AbortWithNewDsl"}
SubOutcome(result, node) == [result |-> result, node |-> node]

\* the variant of the substitution that wraps the core nodes in a list whatever their number
ReplaceAlwaysWrapping(R, nodes) ==
    LET aborts == {i \in 1..Len(nodes) : nodes[i].k \in AbortKinds}
        stop == IF aborts = {} THEN Len(nodes) + 1
                ELSE CHOOSE i \in aborts : \A j \in aborts : i <= j
        seen == SubSeq(nodes, 1, stop - 1)
        core == SelectSeq(seen, LAMBDA e : e.k # "PropagateSlots")
        R1 == [R EXCEPT !.pend = @ \o SelectSeq(seen, LAMBDA e : e.k = "PropagateSlots")]
    IN IF aborts # {}
       THEN [R |-> R1,
             sub |-> SubOutcome("ABORT", IF nodes[stop].k = "Abort" THEN <<>>
                                         ELSE nodes[stop].aux)]
       ELSE IF Len(R.cs) < 2 \/ Len(core) = 0
            THEN [R |-> Raise(R1, "AssertionError"), sub |-> SubOutcome("UNCHANGED", <<>>)]
       ELSE [R |-> [R1 EXCEPT !.tree = ReplaceAt(@, Top(R.cs).path, ListElement(R1.nid, core)),
                              !.nid = @ + 1,
                              !.cs = SetTop(@, Frame(Top(R.cs).path, 0))],
             sub |-> SubOutcome("UNCHANGED", <<>>)]

\* Resolver._replace_current_node_with
replace_current_node_with(R, nodes) ==
    LET aborts == {i \in 1..Len(nodes) : nodes[i].k \in AbortKinds}
        stop == IF aborts = {} THEN Len(nodes) + 1
                ELSE CHOOSE i \in aborts : \A j \in aborts : i <= j
        seen == SubSeq(nodes, 1, stop - 1)
        queued == SelectSeq(seen, LAMBDA e : e.k = "PropagateSlots")
        core == SelectSeq(seen, LAMBDA e : e.k # "PropagateSlots")
        R1 == [R EXCEPT !.pend = @ \o queued]
        parent == R.cs[Len(R.cs) - 1]
        \* where parent.obj.update_child(parent.idx - 1, new_node) puts the new node
        into == parent.path \o <<parent.idx>>
    IN IF aborts # {}
       THEN [R |-> R1,
             sub |-> SubOutcome("ABORT", IF nodes[stop].k = "Abort" THEN <<>>
                                         ELSE nodes[stop].aux)]
       ELSE IF Len(R.cs) < 2
            THEN [R |-> Raise(R1, "AssertionError: call stack"), sub |-> SubOutcome("UNCHANGED", <<>>)]
       ELSE IF Len(core) = 0
            THEN [R |-> Raise(R1, "AssertionError: no core node"), sub |-> SubOutcome("UNCHANGED", <<>>)]
       ELSE LET single == Len(core) = 1
                new_node == IF single THEN core[1] ELSE ListElement(R1.nid, core)
                R2 == [R1 EXCEPT !.nid = IF single THEN @ ELSE @ + 1]
                u == update_child(R1.tree, parent.path, parent.idx, new_node)
            IN IF u.err # ""
               THEN [R |-> Raise(R2, u.err), sub |-> SubOutcome("UNCHANGED", <<>>)]
               ELSE [R |-> [R2 EXCEPT !.tree = u.tree,
                                      !.cs = SetTop(@, Frame(into, 0))],
                     sub |-> SubOutcome("UNCHANGED", <<>>)]

\* Resolver._try_call_on_reentry
try_call_on_reentry(R) ==
    IF Len(R.cs) > 1 THEN on_reentry_resolution(R, R.cs[Len(R.cs) - 1].path) ELSE R

StackNodes(R) == [i \in 1..Len(R.cs) |-> NodeAt(R.tree, R.cs[i].path)]

\* plain abort in Resolver._handle_abort_if_needed: parent.obj.remove_child(parent.idx - 1)
AbortListRemove(tree, parent) == remove_child(tree, parent.path, parent.idx)

\* Resolver._handle_abort_if_needed, for an outcome whose result is ABORT
handle_abort(R, sub) ==
    LET nodes == StackNodes(R)
        lists == {i \in 1..Len(R.cs) : nodes[i].k = "ListElement"}
    IN IF lists = {}
       THEN Raise([R EXCEPT !.cs = <<>>], "RuntimeError: abort outside of a list")
       ELSE LET k == CHOOSE i \in lists : \A j \in lists : j <= i
                parent == R.cs[k]
                R1 == reset_state([R EXCEPT !.cs = SubSeq(@, 1, k), !.qna = <<>>])
                kids(n) == [c \in 1..Len(n.ch) |-> n.ch[c].id]
                log(t2, replaced) ==
                    [n |-> R.alog.n + 1,
                     ids |-> [i \in 1..Len(nodes) |-> nodes[i].id],
                     kinds |-> [i \in 1..Len(nodes) |-> nodes[i].k],
                     idx |-> [i \in 1..Len(nodes) |-> R.cs[i].idx],
                     stop |-> k,
                     kidsBefore |-> [i \in 1..Len(nodes) |-> kids(nodes[i])],
                     kidsAfter |-> [i \in 1..k |-> kids(NodeAt(t2, R.cs[i].path))],
                     replaced |-> replaced,
                     newId |-> IF replaced THEN sub.node[1].id ELSE 0]
            IN IF Len(sub.node) > 0
               THEN LET u == update_child(R1.tree, parent.path, parent.idx, sub.node[1])
                        into == parent.path \o <<parent.idx>>
                    IN IF u.err # "" THEN Raise(R1, u.err)
                       ELSE pre_resolution(
                              [R1 EXCEPT !.tree = u.tree,
                                         !.cs = Append(@, Frame(into, 0)),
                                         !.alog = log(u.tree, TRUE)],
                              into)
               ELSE LET u == AbortListRemove(R1.tree, parent)
                    IN IF u.err # "" THEN Raise(R1, u.err)
                       ELSE [R1 EXCEPT !.tree = u.tree,
                                       !.alog = log(u.tree, FALSE)]

\* the variant of the pause that drops the requesting frame from the call stack
PauseDroppingFrame(R, out) ==
    [R EXCEPT !.ret = out.result, !.req = out.req, !.cs = Pop(@)]

\* the variant of the pause that goes on with the parent instead of returning
PauseSkipping(R, out) == [R EXCEPT !.cs = Pop(@)]

\* "raise StopIteration(outcome)" of _process_current_node: the step returns, nothing is undone
Pause(R, out) == [R EXCEPT !.ret = out.result, !.req = out.req]

\* the variant of _process_current_node that hands every outcome other than UNCHANGED
\* back to the caller of the step
ProcessReturningEveryOutcome(R, ans) ==
    LET current == Top(R.cs)
        d == do_resolution(R, current.path, ans)
    IN IF d.R.err # "" THEN d.R
       ELSE IF d.out.result # "UNCHANGED" THEN Pause(d.R, d.out)
       ELSE LET R3 == try_call_on_reentry(post_resolution(d.R, current.path))
            IN IF R3.err # "" THEN R3 ELSE [R3 EXCEPT !.cs = Pop(@)]

\* Resolver._process_current_node; R.ret is what the step returns from here ("" = go on)
process_current_node(R, ans) ==
    LET current == Top(R.cs)
        d == do_resolution(R, current.path, ans)
        \* the call that was entered has its result recorded
        R1 == IF Len(d.R.hooks) > Len(R.hooks)
              THEN [d.R EXCEPT !.hooks[Len(d.R.hooks)].res = d.out.result]
              ELSE d.R
    IN IF R1.err # "" THEN R1
       ELSE IF d.out.result = "ABORT"
            THEN handle_abort(R1, SubOutcome("ABORT", d.out.nodes))
       ELSE IF d.out.result = "INTERACTION_REQUESTED"
            THEN Pause(R1, d.out)
       ELSE LET R2 == post_resolution(R1, current.path)
            IN IF d.out.result = "NEW_DSL_NODES"
               THEN LET s == replace_current_node_with(R2, d.out.nodes)
                    IN IF s.R.err # "" THEN s.R
                       ELSE IF s.sub.result = "ABORT" THEN handle_abort(s.R, s.sub)
                       ELSE LET R3 == pre_resolution(s.R, Top(s.R.cs).path)
                            IN IF R3.err # "" THEN R3 ELSE try_call_on_reentry(R3)
               ELSE LET R3 == try_call_on_reentry(R2)
                    IN IF R3.err # "" THEN R3 ELSE [R3 EXCEPT !.cs = Pop(@)]

\* one iteration of the while loop of Resolver.resolve
resolve_iteration(R, ans) ==
    LET current == Top(R.cs)
        node == NodeAt(R.tree, current.path)
    IN IF is_leaf(node) \/ current.idx >= Len(node.ch)
       THEN process_current_node(R, ans)
       ELSE LET child == current.path \o <<current.idx + 1>>
                R1 == pre_resolution([R EXCEPT !.cs = Append(@, Frame(child, 0))], child)
            IN IF R1.err # "" THEN R1
               ELSE [R1 EXCEPT !.cs[Len(R.cs)].idx = @ + 1]

(***************************************************************************)
(* Inputs: the initial trees handed to the host and the answers the oracle *)
(* may give.  Each is written in the DSL in its comment; its nodes take    *)
(* consecutive identities starting at b.                                   *)
(***************************************************************************)
\* [add(a=2, b=ASK("q"))]
TreeAsk(b) ==
    ListElement(b, <<Intent(b + 1, "add",
        <<Slot(b + 2, "a", Value(b + 3, 2)), Slot(b + 4, "b", Ask(b + 5, "q"))>>)>>)

\* [add(a=ASK("q1"))]
TreeMissing(b) ==
    ListElement(b, <<Intent(b + 1, "add", <<Slot(b + 2, "a", Ask(b + 3, "q1"))>>)>>)

\* [add(a=ASK("q1"), b=1), multiply(a=add(a=1, b=2), b=ASK("q2"))]
TreeTwo(b) ==
    ListElement(b,
      <<Intent(b + 1, "add",
          <<Slot(b + 2, "a", Ask(b + 3, "q1")), Slot(b + 4, "b", Value(b + 5, 1))>>),
        Intent(b + 6, "multiply",
          <<Slot(b + 7, "a", ReturnValue(b + 8, Intent(b + 9, "add",
                <<Slot(b + 10, "a", Value(b + 11, 1)),
                  Slot(b + 12, "b", Value(b + 13, 2))>>))),
            Slot(b + 14, "b", Ask(b + 15, "q2"))>>)>>)

\* [add(a=1, b=2), multiply(a=4, b=add(a=2, b=3))]
TreeNested(b) ==
    ListElement(b,
      <<Intent(b + 1, "add",
          <<Slot(b + 2, "a", Value(b + 3, 1)), Slot(b + 4, "b", Value(b + 5, 2))>>),
        Intent(b + 6, "multiply",
          <<Slot(b + 7, "a", Value(b + 8, 4)),
            Slot(b + 9, "b", ReturnValue(b + 10, Intent(b + 11, "add",
                <<Slot(b + 12, "a", Value(b + 13, 2)),
                  Slot(b + 14, "b", Value(b + 15, 3))>>)))>>)>>)

\* [QUERY_USER("u")]
TreeQueryUser(b) == ListElement(b, <<QueryUser(b + 1, "u")>>)

\* [add(a=2, b=QUERY_USER("u"))]
TreeQueryUserSlot(b) ==
    ListElement(b, <<Intent(b + 1, "add",
        <<Slot(b + 2, "a", Value(b + 3, 2)), Slot(b + 4, "b", QueryUser(b + 5, "u"))>>)>>)

\* [add(a=2, b=QUERY_FILL("f"))]
TreeQueryFill(b) ==
    ListElement(b, <<Intent(b + 1, "add",
        <<Slot(b + 2, "a", Value(b + 3, 2)), Slot(b + 4, "b", QueryFill(b + 5, "f"))>>)>>)

\* [add(a=ASK("q"), b=QUERY_FILL("f"))]
TreeAskFill(b) ==
    ListElement(b, <<Intent(b + 1, "add",
        <<Slot(b + 2, "a", Ask(b + 3, "q")), Slot(b + 4, "b", QueryFill(b + 5, "f"))>>)>>)

\* [add(a=F("few"), b=F("many")), multiply(a=F("a couple"), b=F("zillion"))]
TreeFuzzy(b) ==
    ListElement(b,
      <<Intent(b + 1, "add",
          <<Slot(b + 2, "a", FuzzyValue(b + 3, "few")),
            Slot(b + 4, "b", FuzzyValue(b + 5, "many"))>>),
        Intent(b + 6, "multiply",
          <<Slot(b + 7, "a", FuzzyValue(b + 8, "a couple")),
            Slot(b + 9, "b", FuzzyValue(b + 10, "zillion"))>>)>>)

\* add(a=F("a\"b"), b=ASK("q")) in a list, built by the constructors
TreeFuzzyQuote(b) ==
    ListElement(b, <<Intent(b + 1, "add",
        <<Slot(b + 2, "a", FuzzyValue(b + 3, "a\"b")), Slot(b + 4, "b", Ask(b + 5, "q"))>>)>>)

\* [launch(a=1)]  (no tool of that name is registered)
TreeUnknownTool(b) ==
    ListElement(b, <<Intent(b + 1, "launch", <<Slot(b + 2, "a", Value(b + 3, 1))>>)>>)

\* add(a=F("few"), b=F("many"))  (a single Intent handed to the Evaluator as root)
TreeSingleIntent(b) ==
    Intent(b, "add", <<Slot(b + 1, "a", FuzzyValue(b + 2, "few")),
                       Slot(b + 3, "b", FuzzyValue(b + 4, "many"))>>)

\* [add(a=2, b=3)]
TreeAdd(b) ==
    ListElement(b, <<Intent(b + 1, "add",
        <<Slot(b + 2, "a", Value(b + 3, 2)), Slot(b + 4, "b", Value(b + 5, 3))>>)>>)

\* [ABORT(), add(a=2, b=3)]  (the intent sequencer emits ABORT() as a root element)
TreeAbort(b) ==
    ListElement(b, <<Abort(b + 1),
                     Intent(b + 2, "add",
                        <<Slot(b + 3, "a", Value(b + 4, 2)), Slot(b + 5, "b", Value(b + 6, 3))>>)>>)

\* [ABORT_WITH_NEW_INTENTS([add(a=2, b=3)])]
TreeAbortWithNewDsl(b) ==
    ListElement(b, <<AbortWithNewDsl(b + 1, ListElement(b + 2,
        <<Intent(b + 3, "add",
            <<Slot(b + 4, "a", Value(b + 5, 2)), Slot(b + 6, "b", Value(b + 7, 3))>>)>>))>>)

\* [add(a=F("few"), b=F("many"))] and multiply(a=F("couple"), b=F("few")) in a list, built
\* by the constructors (a list nested in the root list)
TreeNestedList(b) ==
    ListElement(b,
      <<ListElement(b + 1,
          <<Intent(b + 2, "add",
              <<Slot(b + 3, "a", FuzzyValue(b + 4, "few")),
                Slot(b + 5, "b", FuzzyValue(b + 6, "many"))>>)>>),
        Intent(b + 7, "multiply",
          <<Slot(b + 8, "a", FuzzyValue(b + 9, "couple")),
            Slot(b + 10, "b", FuzzyValue(b + 11, "few"))>>)>>)

\* []
TreeEmpty(b) == ListElement(b, <<>>)

\* [add(a=F("couple"), b=F("few")), add(a=F("few"), b=F("several")),
\*  multiply(a=F("couple"), b=F("few")), add(a=F("several"), b=F("many"))]
TreeFour(b) ==
    ListElement(b,
      <<Intent(b + 1, "add",
          <<Slot(b + 2, "a", FuzzyValue(b + 3, "couple")),
            Slot(b + 4, "b", FuzzyValue(b + 5, "few"))>>),
        Intent(b + 6, "add",
          <<Slot(b + 7, "a", FuzzyValue(b + 8, "few")),
            Slot(b + 9, "b", FuzzyValue(b + 10, "several"))>>),
        Intent(b + 11, "multiply",
          <<Slot(b + 12, "a", FuzzyValue(b + 13, "couple")),
            Slot(b + 14, "b", FuzzyValue(b + 15, "few"))>>),
        Intent(b + 16, "add",
          <<Slot(b + 17, "a", FuzzyValue(b + 18, "several")),
            Slot(b + 19, "b", FuzzyValue(b + 20, "many"))>>)>>)

\* add(a=F("couple"), b=F("few")) and multiply(a=F("A Few"), b=add(a=F("couple"),
\* b=F(" few "))) in a list, built by the constructors: the value of slot b of multiply is
\* the Intent itself, in no ReturnValue
TreeNestedDirect(b) ==
    ListElement(b,
      <<Intent(b + 1, "add",
          <<Slot(b + 2, "a", FuzzyValue(b + 3, "couple")),
            Slot(b + 4, "b", FuzzyValue(b + 5, "few"))>>),
        Intent(b + 6, "multiply",
          <<Slot(b + 7, "a", FuzzyValue(b + 8, "A Few")),
            Slot(b + 9, "b", Intent(b + 10, "add",
                <<Slot(b + 11, "a", FuzzyValue(b + 12, "couple")),
                  Slot(b + 13, "b", FuzzyValue(b + 14, " few "))>>))>>)>>)

\* add(a=ASK("q1"), b=F("few")) and multiply(a=add(a=F("couple"), b=F("few")),
\* b=ASK("q2")) in a list, built by the constructors: the value of slot a of multiply is
\* the Intent itself, in no ReturnValue
TreeTwoDirect(b) ==
    ListElement(b,
      <<Intent(b + 1, "add",
          <<Slot(b + 2, "a", Ask(b + 3, "q1")),
            Slot(b + 4, "b", FuzzyValue(b + 5, "few"))>>),
        Intent(b + 6, "multiply",
          <<Slot(b + 7, "a", Intent(b + 8, "add",
                <<Slot(b + 9, "a", FuzzyValue(b + 10, "couple")),
                  Slot(b + 11, "b", FuzzyValue(b + 12, "few"))>>)),
            Slot(b + 13, "b", Ask(b + 14, "q2"))>>)>>)

\* [QUERY_GATHER("i", "g")]
TreeQueryGather(b) == ListElement(b, <<QueryGather(b + 1, "g")>>)

\* add(a=F("few"), b=[ASK("x"), 6]) in a list, built by the constructors: the value of slot b
\* is a ListElement, as a substitution of several nodes leaves it (resolver.py 90-93)
TreeListAsk(b) ==
    ListElement(b, <<Intent(b + 1, "add",
        <<Slot(b + 2, "a", FuzzyValue(b + 3, "few")),
          Slot(b + 4, "b", ListElement(b + 5, <<Ask(b + 6, "x"), Value(b + 7, 6)>>))>>)>>)

\* add(a=[ABORT()], b=F("few")) in a list, built by the constructors
TreeListAbort(b) ==
    ListElement(b, <<Intent(b + 1, "add",
        <<Slot(b + 2, "a", ListElement(b + 3, <<Abort(b + 4)>>)),
          Slot(b + 5, "b", FuzzyValue(b + 6, "few"))>>)>>)

\* [PROPAGATE_SLOT(b=7), add(a=ASK("q"))]
TreePropagate(b) ==
    ListElement(b,
      <<PropagateSlots(b + 1, <<Slot(b + 2, "b", Value(b + 3, 7))>>),
        Intent(b + 4, "add", <<Slot(b + 5, "a", Ask(b + 6, "q"))>>)>>)

\* [add(a=ASK("q1"), b=ASK("q2")), add(a=ASK("q3"), b=F("few"))]
TreeThree(b) ==
    ListElement(b,
      <<Intent(b + 1, "add",
          <<Slot(b + 2, "a", Ask(b + 3, "q1")), Slot(b + 4, "b", Ask(b + 5, "q2"))>>),
        Intent(b + 6, "add",
          <<Slot(b + 7, "a", Ask(b + 8, "q3")),
            Slot(b + 9, "b", FuzzyValue(b + 10, "few"))>>)>>)

InitialTrees ==
    {TreeAdd(1), TreeAsk(1), TreeAskFill(1), TreeMissing(1), TreeTwo(1), TreeNested(1), TreeQueryUser(1),
     TreeQueryFill(1), TreeFuzzy(1), TreeUnknownTool(1), TreeSingleIntent(1), TreeAbort(1),
     TreeAbortWithNewDsl(1), TreeNestedList(1), TreeEmpty(1), TreeFour(1),
     TreeQueryUserSlot(1), TreeFuzzyQuote(1), TreeNestedDirect(1), TreeQueryGather(1),
     TreeTwoDirect(1), TreeListAsk(1), TreeListAbort(1), TreePropagate(1), TreeThree(1)}

\* the first identity not used by the initial tree t
RECURSIVE AllIds(_)
\* ids of all nodes of a subtree, payloads included
AllIds(n) ==
    {n.id} \cup UNION {AllIds(n.ch[i]) : i \in 1..Len(n.ch)}
           \cup UNION {AllIds(n.aux[i]) : i \in 1..Len(n.aux)}

FirstFreeId(t) == 1 + CHOOSE m \in AllIds(t) : \A i \in AllIds(t) : i <= m

Answer(text, nodes, size) == [text |-> text, nodes |-> nodes, size |-> size, v |-> NoneVal]
NoAnswer == Answer("", <<>>, 0)

\* answers of the oracle that go through parse_dsl
DslAnswers(b) ==
    { Answer("5", <<Value(b, 5)>>, 1),
      Answer("5, PROPAGATE_SLOT(b=7), PROPAGATE_SLOT(b=8)",
             <<Value(b, 5),
               PropagateSlots(b + 1, <<Slot(b + 2, "b", Value(b + 3, 7))>>),
               PropagateSlots(b + 4, <<Slot(b + 5, "b", Value(b + 6, 8))>>)>>, 7),
      Answer("PROPAGATE_SLOT(b=7)",
             <<PropagateSlots(b, <<Slot(b + 1, "b", Value(b + 2, 7))>>)>>, 3),
      Answer("PROPAGATE_SLOT(b=7), ABORT_WITH_NEW_INTENTS([add(a=1, b=ASK(\"r\"))])",
             <<PropagateSlots(b, <<Slot(b + 1, "b", Value(b + 2, 7))>>),
               AbortWithNewDsl(b + 3, ListElement(b + 4,
                 <<Intent(b + 5, "add",
                     <<Slot(b + 6, "a", Value(b + 7, 1)),
                       Slot(b + 8, "b", Ask(b + 9, "r"))>>)>>))>>, 10),
      Answer("ABORT()", <<Abort(b)>>, 1),
      Answer("ABORT_WITH_NEW_INTENTS([add(a=1, b=ASK(\"r\"))])",
             <<AbortWithNewDsl(b, ListElement(b + 1,
                 <<Intent(b + 2, "add",
                     <<Slot(b + 3, "a", Value(b + 4, 1)),
                       Slot(b + 5, "b", Ask(b + 6, "r"))>>)>>))>>, 7),
      Answer("ASK(\"x\"), 6", <<Ask(b, "x"), Value(b + 1, 6)>>, 2),
      Answer("add(a=F(\"few\"), b=F(\"many\"))",
             <<Intent(b, "add",
                 <<Slot(b + 1, "a", FuzzyValue(b + 2, "few")),
                   Slot(b + 3, "b", FuzzyValue(b + 4, "many"))>>)>>, 5),
      Answer(RejectedText, <<>>, 0),
      Answer(OracleFailure, <<>>, 0) }

\* answers of the oracle to a QueryUser's first call: "reasoning: r / user friendly answer:
\* ...", a text without these fields, or no answer at all
UserAnswers ==
    {Answer("user friendly answer", <<>>, 0), Answer("malformed", <<>>, 0),
     Answer(OracleFailure, <<>>, 0)}

\* answers of the oracle to a QueryFill: "reasoning: r / value: 3 / abort:" (a value),
\* "reasoning: r / value: v / abort: nope" (a non-empty abort), a text that does not have
\* the three fields, or no answer at all
FillAnswers ==
    {[Answer("value", <<>>, 0) EXCEPT !.v = 3], Answer("abort", <<>>, 0),
     Answer("malformed", <<>>, 0), Answer(OracleFailure, <<>>, 0)}

\* the oracle calls the node on top of the stack makes in this iteration (a QueryUser on
\* its first entry and a QueryFill make none on a context without base_model)
OracleChoices(R) ==
    LET current == Top(R.cs)
        n == NodeAt(R.tree, current.path)
        processed == is_leaf(n) \/ current.idx >= Len(n.ch)
        replying == ~R.ia.none /\ R.ia.req = n.id /\ ~R.ia.consumed
    IN IF ~processed THEN {NoAnswer}
       ELSE IF n.k \in {"Ask", "IntentRuntimeErrorResolver", "QueryUser"} /\ replying
            THEN DslAnswers(R.nid)
       \* a QueryUser asks the query-user oracle unless it is given the answer to its own
       \* request (consumed already: the assertion fails before any call)
       ELSE IF n.k \in {"QueryUser", "QueryFill"} /\ ~R.rt.base_model THEN {NoAnswer}
       ELSE IF n.k = "QueryUser" /\ (R.ia.none \/ R.ia.req # n.id) THEN UserAnswers
       ELSE IF n.k = "QueryFill" THEN FillAnswers
       ELSE {NoAnswer}

(***************************************************************************)
(* Evaluation (eval of each variant, runtime/context.py, the tools).       *)
(* An evaluation result carries the value or the exception raised, and the *)
(* tool invocations made on the way, in order.                             *)
(***************************************************************************)
\* tools registered in the runtime context, each with the arguments a and b
ToolNames == {"add", "multiply"}
ToolArgs == {"a", "b"}

\* what a tool does when called: return, or raise one of the three exception kinds
ToolModes == {"ok", "recoverable", "runtime", "retry"}

ToolException(mode) ==
    CASE mode = "recoverable" -> "ApiErrorAbortAndResolve"
      [] mode = "runtime" -> "RuntimeError"
      [] mode = "retry" -> "ApiErrorRetry"
      [] OTHER -> ""

ToolValue(name, args) == IF name = "add" THEN args.a + args.b ELSE args.a * args.b

\* value_fuzzy._FUZZY_TO_NUMERIC
FuzzyToNumeric ==
    [t \in {"a couple", "couple", "a few", "few", "several", "many", "a dozen", "dozen",
            "dozens"} |->
        CASE t \in {"a couple", "couple"} -> 2
          [] t \in {"a few", "few"} -> 3
          [] t = "several" -> 5
          [] t = "many" -> 8
          [] t \in {"a dozen", "dozen"} -> 12
          [] OTHER -> 24]

\* what an eval returns or raises, with the tool invocations made on the way.  A returned
\* value is an integer (shape "scalar", in value), a list (shape "list", the values in
\* items) or a dict (shape "dict", the keys in names and their values in items)
Ok(v, tr) ==
    [ok |-> TRUE, exc |-> "", msg |-> "", value |-> v, shape |-> "scalar", items |-> <<>>,
     names |-> <<>>, trace |-> tr]
OkList(items, tr) ==
    [ok |-> TRUE, exc |-> "", msg |-> "", value |-> NoneVal, shape |-> "list",
     items |-> items, names |-> <<>>, trace |-> tr]
OkDict(names, items, tr) ==
    [ok |-> TRUE, exc |-> "", msg |-> "", value |-> NoneVal, shape |-> "dict",
     items |-> items, names |-> names, trace |-> tr]
Exc(cls, msg, tr) ==
    [ok |-> FALSE, exc |-> cls, msg |-> msg, value |-> NoneVal, shape |-> "scalar",
     items |-> <<>>, names |-> <<>>, trace |-> tr]
\* the value of a result, as an item of a list or of a dict
Returned(r) == [value |-> r.value, shape |-> r.shape, items |-> r.items, names |-> r.names]
Invocation(n, args, ok) ==
    [id |-> n.id, name |-> n.name, args |-> args, ok |-> ok, run |-> 0]

\* the tool call at the end of Intent.eval, once every slot is evaluated
CallTool(n, args, modes, tr) ==
    IF DOMAIN args # ToolArgs
    THEN Exc("ExternalError", "tool arguments", tr)
    ELSE IF modes[n.name] = "ok"
         THEN Ok(ToolValue(n.name, args), Append(tr, Invocation(n, args, TRUE)))
         ELSE Exc(ToolException(modes[n.name]), "tool failed",
                  Append(tr, Invocation(n, args, FALSE)))

\* "for slot in self._items" of Intent.eval
SlotsInOrder(n) == n.ch

\* "self.value.lower().strip()" of FuzzyValue.eval on the fuzzy texts of the model: every
\* other text is in lower case and has no blank at either end
lower_strip(text) ==
    CASE text = "A Few" -> "a few"
      [] text = " few " -> "few"
      [] OTHER -> text

\* the classes whose eval takes the parameter value_type: Value, ReturnValue, ListValue,
\* ListElement, IntentEvaluatedSuccess, QueryGather, Abort
TypedEvalKinds ==
    {"Value", "ReturnValue", "ListValue", "ListElement", "IntentEvaluatedSuccess",
     "QueryGather", "Abort"}

\* Value.eval called without a value_type (no caller of the repository passes one)
ValueEval(n) == Exc("RuntimeError", "Missing expected type for evaluation of Value", <<>>)

RECURSIVE eval(_, _)
\* eval of a node as Intent.eval, Slot.eval and PropagateSlots.eval call it
\* (eval(runtime_context), value_type left to its default None): Value.eval,
\* ReturnValue.eval, ListValue.eval, FuzzyValue.eval, Intent.eval, ListElement.eval,
\* IntentEvaluatedSuccess.eval, Slot.eval, PropagateSlots.eval, and the eval of the
\* unresolved variants
eval(n, modes) ==
    LET RECURSIVE slots(_, _, _)
        \* the dict comprehension of Intent.eval: slots in declared order
        slots(i, args, tr) ==
            IF i > Len(n.ch) THEN CallTool(n, args, modes, tr)
            ELSE LET slot == SlotsInOrder(n)[i]
                     r == eval(slot.ch[1], modes)
                     tr2 == tr \o r.trace
                 IN IF slot.name \notin ToolArgs
                    THEN Exc("ExternalError", "argument", tr)
                    ELSE IF ~r.ok THEN [r EXCEPT !.trace = tr2]
                    ELSE IF r.shape # "scalar" \/ r.value \notin Nat
                         THEN Exc("ExternalError", "cast", tr2)
                         ELSE slots(i + 1,
                                    [x \in DOMAIN args \cup {slot.name} |->
                                        IF x = slot.name THEN r.value ELSE args[x]],
                                    tr2)
        \* "child.eval(runtime_context, inner)" of ListElement.eval: a call with two
        \* arguments, which an eval without the parameter value_type does not take
        typed(c) == IF c.k \in TypedEvalKinds THEN eval(c, modes)
                    ELSE Exc("TypeError", "eval() takes 2 positional arguments", <<>>)
        RECURSIVE items(_, _, _)
        \* the list comprehension of ListElement.eval
        items(i, vals, tr) ==
            IF i > Len(n.ch) THEN OkList(vals, tr)
            ELSE LET r == typed(n.ch[i])
                 IN IF ~r.ok THEN [r EXCEPT !.trace = tr \o @]
                    ELSE items(i + 1, Append(vals, Returned(r)), tr \o r.trace)
        RECURSIVE pairs(_, _, _, _)
        \* the dict comprehension of PropagateSlots.eval: a key keeps the place of its
        \* first occurrence and takes the value of its last
        pairs(i, names, vals, tr) ==
            IF i > Len(n.ch) THEN OkDict(names, vals, tr)
            ELSE LET r == eval(n.ch[i].ch[1], modes)
                     name == n.ch[i].name
                     seen == {j \in 1..Len(names) : names[j] = name}
                 IN IF ~r.ok THEN [r EXCEPT !.trace = tr \o @]
                    ELSE IF seen = {}
                    THEN pairs(i + 1, Append(names, name), Append(vals, Returned(r)),
                               tr \o r.trace)
                    ELSE pairs(i + 1, names,
                               [vals EXCEPT ![CHOOSE j \in seen : TRUE] = Returned(r)],
                               tr \o r.trace)
    IN CASE n.k = "Value" -> ValueEval(n)
         [] n.k = "ReturnValue" ->
              IF ~is_resolved(n) THEN Exc("RuntimeError", "Unresolved DSL node", <<>>)
              ELSE Exc("RuntimeError", "Missing expected type for evaluation of ReturnValue",
                       <<>>)
         [] n.k = "ListValue" ->
              Exc("RuntimeError", "Missing expected type for evaluation of ListValue", <<>>)
         [] n.k = "FuzzyValue" ->
              IF lower_strip(n.name) \in DOMAIN FuzzyToNumeric
              THEN Ok(FuzzyToNumeric[lower_strip(n.name)], <<>>)
              ELSE Exc("ValueError", "Unrecognized fuzzy value", <<>>)
         [] n.k = "Intent" ->
              IF n.name \notin ToolNames THEN Exc("KeyError", n.name, <<>>)
              ELSE slots(1, <<>>, <<>>)
         [] n.k = "ListElement" -> items(1, <<>>, <<>>)
         [] n.k = "IntentEvaluatedSuccess" ->
              IF ~is_resolved(n) THEN Exc("RuntimeError", "Unresolved DSL node", <<>>)
              ELSE Ok(n.val, <<>>)
         [] n.k = "Slot" -> eval(n.ch[1], modes)
         [] n.k = "PropagateSlots" -> pairs(1, <<>>, <<>>, <<>>)
         [] OTHER -> Exc("RuntimeError", "Unresolved DSL node", <<>>)

\* exceptions caught by the except clause of Evaluator.evaluate
CaughtExceptions == {"RuntimeError", "ApiErrorAbortAndResolve"}

\* Evaluator._handle_eval_error: the IntentRuntimeErrorResolver, or none
handle_eval_error(n, r, id) ==
    IF r.exc = "ApiErrorAbortAndResolve" /\ n.k = "Intent"
    THEN <<IntentRuntimeErrorResolver(id, n, r.msg)>>
    ELSE <<>>

EvaluationOutcome(status, value, error) == [status |-> status, value |-> value, error |-> error]
NoOutcome == EvaluationOutcome("", NoneVal, "")

\* the variant of the evaluator that leaves an evaluated Intent in the tree
InstallNothing(tree, path, wrapped) == Mutated(tree)

\* the variant of the evaluator that installs the wrapper as the first child of the parent
InstallAtFront(tree, path, wrapped) == Mutated(ReplaceAt(tree, Pop(path) \o <<1>>, wrapped))

\* "parent.obj.update_child(parent.idx, wrapped)" of Evaluator.evaluate: path is the path
\* of the node on top of the stack, the child of the parent at the parent's idx
InstallWrapped(tree, path, wrapped) == update_child(tree, Pop(path), Top(path), wrapped)

(***************************************************************************)
(* AsyncEvaluator (runtime/async_evaluator.py).  E is the evaluator:       *)
(*   pc     where evaluate() is: "none" (no AsyncEvaluator), "running",    *)
(*          "done" (returned an outcome), "escaped" (raised)               *)
(*   tree, cs, out, nid, exc   as for the Evaluator                        *)
(*   trace  tool invocations of this evaluation, in order                  *)
(*   ref    what the Evaluator gave on the same tree with the same tools   *)
(***************************************************************************)
\* "current.obj.eval_async(self._runtime_context)", current.obj being an Intent: Intent
\* defines eval and no eval_async, and so do its base classes, so the attribute lookup
\* raises AttributeError before a coroutine is made and before anything is awaited
eval_async(n) ==
    Exc("AttributeError", "'Intent' object has no attribute 'eval_async'", <<>>)

\* AsyncEvaluator._handle_eval_error
async_handle_eval_error(n, r, id) ==
    IF r.exc = "ApiErrorAbortAndResolve" /\ n.k = "Intent"
    THEN <<IntentRuntimeErrorResolver(id, n, r.msg)>>
    ELSE <<>>

NoObservation == [out |-> NoOutcome, exc |-> "", tree |-> <<>>, calls |-> <<>>]

\* no AsyncEvaluator has been built
NoAsyncEvaluator ==
    [pc |-> "none", tree |-> <<>>, cs |-> <<>>, out |-> NoOutcome, nid |-> 0, exc |-> "",
     trace |-> <<>>, ref |-> NoObservation]

\* AsyncEvaluator.__init__
NewAsyncEvaluator(tree, nid) ==
    [NoAsyncEvaluator EXCEPT !.tree = tree, !.cs = <<Frame(<<>>, 0)>>, !.nid = nid]

\* "self._call_stack.pop(); if self._call_stack: self._call_stack[-1].idx += 1"
AsyncPop(cs) ==
    IF Len(cs) > 1
    THEN [SubSeq(cs, 1, Len(cs) - 1) EXCEPT ![Len(cs) - 1].idx = @ + 1]
    ELSE <<>>

\* the Intent branch of AsyncEvaluator.evaluate, r being what
\* "await current.obj.eval_async(...)" gave: the value, or the exception raised
AsyncIntentBranch(E, n, r) ==
    LET path == Top(E.cs).path
        E1 == [E EXCEPT !.trace = @ \o r.trace]
        outcome == async_handle_eval_error(n, r, E.nid)
        \* "if len(self._call_stack) >= 2: parent.obj.update_child(parent.idx, ...)"
        install(node) == IF Len(E.cs) >= 2 THEN update_child(E.tree, Pop(path), Top(path), node)
                         ELSE Mutated(E.tree)
        wrapped == install(IntentEvaluatedSuccess(E.nid, n, r.value))
    IN IF r.ok
       THEN IF wrapped.err = ""
            THEN [E1 EXCEPT !.tree = wrapped.tree, !.nid = @ + 1, !.cs = AsyncPop(@)]
            ELSE IF wrapped.err \in LeafErrors
            THEN [E1 EXCEPT !.nid = @ + 1, !.pc = "done",
                            !.out = EvaluationOutcome("ABORTED_UNRECOVERABLE", NoneVal,
                                                      "RuntimeError")]
            ELSE [E1 EXCEPT !.nid = @ + 1, !.exc = wrapped.err, !.pc = "escaped"]
       ELSE IF r.exc \in {"RuntimeError", "ApiErrorAbortAndResolve"}
       THEN IF Len(outcome) > 0
            THEN IF install(outcome[1]).err # ""
                 THEN [E1 EXCEPT !.nid = @ + 1, !.exc = install(outcome[1]).err,
                                 !.pc = "escaped"]
                 ELSE [E1 EXCEPT !.tree = install(outcome[1]).tree,
                                 !.nid = @ + 1, !.pc = "done",
                                 !.out = EvaluationOutcome("ABORTED_RECOVERABLE", NoneVal,
                                                           r.exc)]
            ELSE [E1 EXCEPT !.pc = "done",
                            !.out = EvaluationOutcome("ABORTED_UNRECOVERABLE", NoneVal,
                                                      r.exc)]
       ELSE [E1 EXCEPT !.exc = r.exc, !.pc = "escaped"]

\* one turn of the while loop of AsyncEvaluator.evaluate, or the return after the loop
AsyncIteration(E) ==
    LET cur == Top(E.cs)
        n == NodeAt(E.tree, cur.path)
    IN IF Len(E.cs) = 0
       THEN [E EXCEPT !.pc = "done",
                      !.out = EvaluationOutcome("ABORTED_UNRECOVERABLE", NoneVal,
                                                "RuntimeError")]
       ELSE IF n.k = "Intent" THEN AsyncIntentBranch(E, n, eval_async(n))
       ELSE IF n.k = "ListElement"
       THEN IF cur.idx < Len(n.ch)
            THEN [E EXCEPT !.cs = Append(@, Frame(cur.path \o <<cur.idx + 1>>, 0))]
            ELSE IF Len(E.cs) > 1 THEN [E EXCEPT !.cs = AsyncPop(@)]
            ELSE [E EXCEPT !.cs = <<>>, !.pc = "done",
                           !.out = EvaluationOutcome("SUCCESS", NoneVal, "")]
       ELSE IF n.k = "IntentEvaluatedSuccess" THEN [E EXCEPT !.cs = AsyncPop(@)]
       ELSE [E EXCEPT !.pc = "done",
                      !.out = EvaluationOutcome("ABORTED_UNRECOVERABLE", NoneVal,
                                                "TypeError")]

(***************************************************************************)
(* State.                                                                  *)
(*   rpc    where the Resolver is: "none" (no resolver), "failed" (the     *)
(*          constructor raised), "new", "running"                          *)
(*          (inside a step), "paused" (the step returned                   *)
(*          INTERACTION_REQUESTED), "done" (UNCHANGED), "raised"           *)
(*   rs     the Resolver and its ResolutionContext (record R above)        *)
(*   epc    where the Evaluator is: "none", "running", "done" (evaluate    *)
(*          returned an outcome), "escaped" (evaluate raised)              *)
(*   ev     the Evaluator: its tree, its call stack, the outcome           *)
(*   trace  tool invocations made since the start, in order                *)
(*   modes  what each tool does when called                                *)
(*   host   the host loop: oracle answers used, recovery rounds, repeated   *)
(*          interactions, calls of insert_child and what the last raised    *)
(*   hist   history: state before the last do_resolution and the oracle's  *)
(*          answer to the call it made, hook count at                      *)
(*          the last resume, outcome and trace length before a second      *)
(*          evaluation, Q&A history, oracle-call log and number of abort   *)
(*          unwinds at the start of the running step, tree the resolver    *)
(*          was built on and number of interactions it was given, next     *)
(*          identity and trace length at the start of an evaluation        *)
(*   pin    the argument a function of the library is applied to on its own *)
(*   pout   the result of that application                                  *)
(*   aev    the AsyncEvaluator (record E above)                             *)
(***************************************************************************)
VARIABLES rpc, rs, epc, ev, trace, modes, host, hist, pin, pout, aev

vars == <<rpc, rs, epc, ev, trace, modes, host, hist, pin, pout, aev>>

\* no function is applied on its own
NoCall == [f |-> "", arg |-> <<>>]
NoResult == [done |-> FALSE, v |-> <<>>]

\* the variant of the copy that hands out the object itself
SameObject(t) == [tree |-> t, shared |-> TRUE]

\* copy.deepcopy of a tree: an equal tree; shared tells whether the result is made of the
\* nodes of the argument, so that a mutation of one is a mutation of the other
deepcopy(t) == [tree |-> t, shared |-> FALSE]

\* Resolver.dsl_elements
dsl_elements(R) == deepcopy(R.tree)

\* Resolver.__init__ with dsl=tree (tree is the copy made of the argument): the runtime
\* context it is given, fresh ResolutionContext, root frame on the stack
NewResolver(rt, tree, nid) ==
    [rt |-> rt, tree |-> tree, cs |-> <<Frame(<<>>, 0)>>, ss |-> <<NoneState>>, pend |-> <<>>,
     qna |-> <<>>, log |-> <<>>, ia |-> NoInteraction, err |-> "", nid |-> nid,
     hooks |-> <<>>, alog |-> NoAbortLog, mlog |-> NoMergeLog, ret |-> "", req |-> NoRequest]

\* what the host passes to Resolver(runtime_context, prompt=..., dsl=...): a tree, a prompt
\* (ans is what the intent sequencer answers to it), or neither
WithDsl(t) == [mode |-> "dsl", tree |-> t, ans |-> NoAnswer]
WithPrompt(ans) == [mode |-> "prompt", tree |-> ListElement(0, <<>>), ans |-> ans]
WithNeither == [mode |-> "neither", tree |-> ListElement(0, <<>>), ans |-> NoAnswer]

\* a constructor that raised: there is no Resolver; log is what the context held by then
NoResolver(rt, e, log) ==
    [NewResolver(rt, ListElement(0, <<>>), 1) EXCEPT !.cs = <<>>, !.err = e, !.log = log]

\* Resolver._process_user_prompt, then the rest of __init__: the oracle call (it reads
\* base_model of the runtime context first), its entry in llm_call_logs, parse_dsl of the
\* answer as the root list (identity b, its nodes from b + 1 on)
process_user_prompt(rt, ans, b) ==
    IF ~rt.base_model THEN NoResolver(rt, NoBaseModel, <<>>)
    ELSE IF ans.text = OracleFailure THEN NoResolver(rt, "OracleError", <<>>)
    ELSE IF ans.text = RejectedText
         THEN NoResolver(rt, "ValueError: parse_dsl", <<"intent_sequencer">>)
    ELSE [NewResolver(rt, ListElement(b, ans.nodes), b + 1 + ans.size) EXCEPT
             !.log = <<"intent_sequencer">>]

\* Resolver.__init__
ResolverInit(rt, c) ==
    IF c.mode = "dsl" THEN NewResolver(rt, deepcopy(c.tree).tree, FirstFreeId(c.tree))
    ELSE IF c.mode = "prompt" THEN process_user_prompt(rt, c.ans, 1)
    ELSE NoResolver(rt, "ValueError: either a prompt or a parsed DSL must be provided", <<>>)

\* Evaluator.__init__: root frame on the stack
NewEvaluator(tree, nid) ==
    [tree |-> tree, cs |-> <<Frame(<<>>, 0)>>, out |-> NoOutcome, nid |-> nid, exc |-> "",
     failed |-> <<>>, shared |-> FALSE]

NoSnap == [cs |-> <<>>, tree |-> <<>>, ss |-> <<>>, pend |-> <<>>, ia |-> NoInteraction,
           ans |-> NoAnswer, nid |-> 0, log |-> <<>>]
NoEval == [node |-> <<>>, ok |-> FALSE, tr |-> <<>>, exc |-> "", msg |-> ""]
NoHist == [snap |-> NoSnap, resumeAt |-> 0, resumed |-> FALSE, resumeReq |-> 0,
           reeval |-> FALSE, prev |-> NoOutcome, startLen |-> 0, evals |-> 0,
           lastEval |-> NoEval, evalRoot |-> <<>>, stepTree |-> <<>>,
           stepQna |-> <<>>, stepLog |-> <<>>, stepAborts |-> 0,
           dsl |-> <<>>, interactions |-> 0, evalStart |-> [nid |-> 0, len |-> 0]]

\* all tools succeed, or exactly one tool fails in one of the three ways
ModeChoices ==
    {m \in [ToolNames -> ToolModes] : Cardinality({t \in ToolNames : m[t] # "ok"}) <= 1}

\* answers of the intent sequencer to the prompt of the host: [add(a=2, b=3)],
\* [add(a=2, b=ASK("q"))], a text parse_dsl rejects, or no answer at all
PromptAnswers(b) ==
    { Answer("add(a=2, b=3)",
             <<Intent(b, "add",
                 <<Slot(b + 1, "a", Value(b + 2, 2)),
                   Slot(b + 3, "b", Value(b + 4, 3))>>)>>, 5),
      Answer("add(a=2, b=ASK(\"q\"))",
             <<Intent(b, "add",
                 <<Slot(b + 1, "a", Value(b + 2, 2)),
                   Slot(b + 3, "b", Ask(b + 4, "q"))>>)>>, 5),
      Answer(RejectedText, <<>>, 0),
      Answer(OracleFailure, <<>>, 0) }

\* the ways the host builds its first Resolver
Constructions ==
    {WithDsl(t) : t \in InitialTrees} \cup {WithPrompt(a) : a \in PromptAnswers(2)}
        \cup {WithNeither}

Init ==
    /\ \E c \in Constructions, rt \in RuntimeContexts, direct \in BOOLEAN :
         /\ rs = ResolverInit(rt, c)
         \* the constructor raised; or the host resolves a list first, or it hands its tree
         \* to an Evaluator as it is
         /\ rpc = IF rs.err # "" THEN "failed"
                  ELSE IF c.mode = "prompt" \/ (c.tree.k = "ListElement" /\ ~direct)
                  THEN "new" ELSE "none"
    /\ epc = "none"
    /\ ev = NewEvaluator(<<>>, 0)
    /\ trace = <<>>
    /\ modes = [t \in ToolNames |-> "ok"]
    /\ host = [used |-> 0, rounds |-> 0, retries |-> 0, inserts |-> 0, raised |-> ""]
    /\ hist = NoHist
    /\ pin = NoCall
    /\ pout = NoResult
    /\ aev = NoAsyncEvaluator

(***************************************************************************)
(* The host calls the resolver.                                            *)
(***************************************************************************)
\* first call of a resolver: step(None)
HostStep ==
    /\ rpc = "new"
    /\ rpc' = "running"
    /\ rs' = [rs EXCEPT !.ia = NoInteraction, !.ret = ""]
    /\ hist' = [hist EXCEPT !.resumed = FALSE, !.stepTree = rs.tree,
                            !.stepQna = rs.qna, !.stepLog = rs.log,
                            !.stepAborts = rs.alog.n,
                            !.dsl = rs.tree, !.interactions = 0]
    /\ UNCHANGED <<epc, ev, trace, modes, host, pin, pout, aev>>

\* the host answers the pending request: step(Interaction(request, answer)).  The host
\* that answers the request again after a step that raised is HostReplyAfterRaise.
HostReply ==
    /\ rpc = "paused"
    /\ host.used < MaxOracle
    /\ rpc' = "running"
    /\ rs' = [rs EXCEPT !.ia = [none |-> FALSE, req |-> rs.req.requester, consumed |-> FALSE],
                        !.ret = ""]
    /\ host' = [host EXCEPT !.used = @ + 1]
    /\ hist' = [hist EXCEPT !.resumed = TRUE, !.resumeAt = Len(rs.hooks),
                            !.resumeReq = rs.req.requester, !.stepTree = rs.tree,
                            !.stepQna = rs.qna, !.stepLog = rs.log,
                            !.stepAborts = rs.alog.n,
                            !.interactions = @ + 1]
    /\ UNCHANGED <<epc, ev, trace, modes, pin, pout, aev>>

\* the host answers the request it holds with a new Interaction after a step that raised:
\* step(Interaction(request, answer)) has no guard, resolve() runs on the context as the
\* raised step left it
HostReplyAfterRaise ==
    /\ rpc = "raised"
    /\ rs.req # NoRequest
    /\ host.used < MaxOracle
    /\ host.retries < MaxRetries
    /\ rpc' = "running"
    /\ rs' = [rs EXCEPT !.ia = [none |-> FALSE, req |-> rs.req.requester, consumed |-> FALSE],
                        !.err = "", !.ret = ""]
    /\ host' = [host EXCEPT !.used = @ + 1, !.retries = @ + 1]
    /\ hist' = [hist EXCEPT !.resumed = FALSE, !.stepTree = rs.tree,
                            !.stepQna = rs.qna, !.stepLog = rs.log,
                            !.stepAborts = rs.alog.n,
                            !.interactions = @ + 1]
    /\ UNCHANGED <<epc, ev, trace, modes, pin, pout, aev>>

\* the host calls step() again with the Interaction object of the previous step, after
\* that step raised or returned a request: the context is as the step left it, the
\* Interaction keeps its consumed flag
HostResubmit ==
    /\ rpc \in {"paused", "raised"}
    /\ ~rs.ia.none
    /\ host.retries < MaxRetries
    /\ rpc' = "running"
    /\ rs' = [rs EXCEPT !.err = "", !.ret = ""]
    /\ host' = [host EXCEPT !.retries = @ + 1]
    /\ hist' = [hist EXCEPT !.resumed = FALSE, !.stepTree = rs.tree,
                            !.stepQna = rs.qna, !.stepLog = rs.log,
                            !.stepAborts = rs.alog.n]
    /\ UNCHANGED <<epc, ev, trace, modes, pin, pout, aev>>

\* the host calls step(None) again on a resolver it has called before ("Pass None on the
\* first call or to proceed without new input"): resolve() runs on the context as the last
\* call left it, whether that call returned a request, returned UNCHANGED or raised
HostStepAgain ==
    /\ rpc \in {"paused", "raised", "done"}
    /\ epc = "none"
    /\ host.retries < MaxRetries
    /\ rpc' = "running"
    /\ rs' = [rs EXCEPT !.ia = NoInteraction, !.err = "", !.ret = ""]
    /\ host' = [host EXCEPT !.retries = @ + 1]
    /\ hist' = [hist EXCEPT !.resumed = FALSE, !.stepTree = rs.tree,
                            !.stepQna = rs.qna, !.stepLog = rs.log,
                            !.stepAborts = rs.alog.n]
    /\ UNCHANGED <<epc, ev, trace, modes, pin, pout, aev>>

\* one iteration of the loop of resolve(), with the oracle's answer if one is asked for
ResolveIteration ==
    /\ rpc = "running"
    /\ Len(rs.cs) > 0
    /\ \E ans \in OracleChoices(rs) :
         LET R == resolve_iteration(rs, ans)
             n == NodeAt(rs.tree, Top(rs.cs).path)
             processed == is_leaf(n) \/ Top(rs.cs).idx >= Len(n.ch)
         IN /\ rs' = R
            /\ rpc' = IF R.err # "" THEN "raised"
                      ELSE IF R.ret # "" THEN "paused"
                      ELSE "running"
            /\ hist' = IF processed
                       THEN [hist EXCEPT !.snap = [cs |-> rs.cs, tree |-> rs.tree,
                                                   ss |-> rs.ss, pend |-> rs.pend,
                                                   ia |-> rs.ia, ans |-> ans,
                                                   nid |-> rs.nid, log |-> rs.log]]
                       ELSE hist
    \* a tree made of the resolver's nodes changes with the resolver's tree
    /\ ev' = IF ev.shared THEN [ev EXCEPT !.tree = rs'.tree] ELSE ev
    /\ UNCHANGED <<epc, trace, modes, host, pin, pout, aev>>

\* the loop of resolve() ends on an empty call stack: the step returns UNCHANGED
ResolveReturn ==
    /\ rpc = "running"
    /\ Len(rs.cs) = 0
    /\ rpc' = "done"
    /\ rs' = [rs EXCEPT !.ret = "UNCHANGED"]
    /\ UNCHANGED <<epc, ev, trace, modes, host, hist, pin, pout, aev>>

(***************************************************************************)
(* The host calls the evaluator (runtime/evaluator.py).                    *)
(***************************************************************************)
\* Evaluator(runtime_context, resolver.dsl_elements) once the resolver returned UNCHANGED,
\* or on a tree that needs no resolver; evaluate() starts
HostEvaluate ==
    /\ rpc \in {"done", "none"}
    /\ epc = "none"
    /\ epc' = "running"
    /\ ev' = [NewEvaluator(dsl_elements(rs).tree, rs.nid) EXCEPT
                 !.shared = dsl_elements(rs).shared]
    /\ modes' \in ModeChoices
    /\ hist' = [hist EXCEPT !.evals = @ + 1, !.reeval = FALSE, !.evalRoot = rs.tree,
                            !.evalStart = [nid |-> rs.nid, len |-> Len(trace)]]
    /\ UNCHANGED <<rpc, rs, trace, host, pin, pout, aev>>

\* the variant of the pop that advances the parent's index by two
PopFrameSkipping(cs) ==
    LET rest == Pop(cs)
    IN IF Len(rest) > 0 THEN [rest EXCEPT ![Len(rest)].idx = @ + 2] ELSE rest

PopFrame(cs) ==
    LET rest == Pop(cs)
    IN IF Len(rest) > 0 THEN [rest EXCEPT ![Len(rest)].idx = @ + 1] ELSE rest

\* the Intent branch of Evaluator.evaluate
EvalIntent ==
    /\ epc = "running"
    /\ Len(ev.cs) > 0
    /\ NodeAt(ev.tree, Top(ev.cs).path).k = "Intent"
    /\ \E external \in BOOLEAN :
         LET cur == Top(ev.cs)
             n == NodeAt(ev.tree, cur.path)
             r == eval(n, modes)
             caught == r.exc \in CaughtExceptions \/ (r.exc = "ExternalError" /\ external)
             wrapped == IntentEvaluatedSuccess(ev.nid, n, r.value)
             h == handle_eval_error(n, r, ev.nid)
             \* "if len(self._call_stack) >= 2: parent.obj.update_child(parent.idx, ...)"
             install(node) == IF Len(ev.cs) >= 2 THEN InstallWrapped(ev.tree, cur.path, node)
                              ELSE Mutated(ev.tree)
             failure == <<[id |-> n.id, path |-> cur.path, depth |-> Len(ev.cs)]>>
             made == [i \in 1..Len(r.trace) |-> [r.trace[i] EXCEPT !.run = hist.evals]]
         IN /\ trace' = trace \o made
            /\ hist' = [hist EXCEPT !.lastEval = [node |-> n, ok |-> r.ok, tr |-> made,
                                                   exc |-> r.exc, msg |-> r.msg]]
            /\ IF r.ok
               THEN IF install(wrapped).err = ""
                    THEN /\ ev' = [ev EXCEPT !.tree = install(wrapped).tree,
                                             !.cs = PopFrame(@),
                                             !.nid = @ + 1]
                         /\ epc' = "running"
                    ELSE IF install(wrapped).err \in LeafErrors
                    \* a RuntimeError raised inside the try block: no resolver node is built
                    THEN /\ ev' = [ev EXCEPT !.nid = @ + 1,
                                             !.failed = failure,
                                             !.out = EvaluationOutcome("ABORTED_UNRECOVERABLE",
                                                                       NoneVal, "RuntimeError")]
                         /\ epc' = "done"
                    ELSE /\ ev' = [ev EXCEPT !.nid = @ + 1, !.exc = install(wrapped).err,
                                             !.failed = failure]
                         /\ epc' = "escaped"
               ELSE IF caught
               THEN IF Len(h) > 0 /\ install(h[1]).err # ""
                    \* raised inside the except clause: it leaves evaluate()
                    THEN /\ ev' = [ev EXCEPT !.nid = @ + 1, !.exc = install(h[1]).err,
                                             !.failed = failure]
                         /\ epc' = "escaped"
                    ELSE /\ ev' = [ev EXCEPT
                                     !.tree = IF Len(h) > 0 THEN install(h[1]).tree ELSE @,
                                     !.nid = @ + Len(h),
                                     !.failed = failure,
                                     !.out = EvaluationOutcome(
                                               IF Len(h) > 0 THEN "ABORTED_RECOVERABLE"
                                               ELSE "ABORTED_UNRECOVERABLE", NoneVal, r.exc)]
                         /\ epc' = "done"
               ELSE /\ ev' = [ev EXCEPT !.exc = r.exc, !.failed = failure]
                    /\ epc' = "escaped"
    \* a tree made of the resolver's nodes is the resolver's tree
    /\ rs' = IF ev.shared THEN [rs EXCEPT !.tree = ev'.tree] ELSE rs
    /\ UNCHANGED <<rpc, modes, host, pin, pout, aev>>

\* the ListElement branch, a child is left: push it
EvalListPush ==
    /\ epc = "running"
    /\ Len(ev.cs) > 0
    /\ LET cur == Top(ev.cs)
           n == NodeAt(ev.tree, cur.path)
       IN /\ n.k = "ListElement"
          /\ cur.idx < Len(n.ch)
          /\ ev' = [ev EXCEPT !.cs = Append(@, Frame(cur.path \o <<cur.idx + 1>>, 0))]
    /\ UNCHANGED <<rpc, rs, epc, trace, modes, host, hist, pin, pout, aev>>

\* the ListElement branch, no child is left: pop, and return SUCCESS from the root
EvalListPop ==
    /\ epc = "running"
    /\ Len(ev.cs) > 0
    /\ LET cur == Top(ev.cs)
           n == NodeAt(ev.tree, cur.path)
       IN /\ n.k = "ListElement"
          /\ cur.idx >= Len(n.ch)
          /\ \/ /\ Len(ev.cs) > 1
                /\ ev' = [ev EXCEPT !.cs = PopFrame(@)]
                /\ epc' = "running"
             \/ /\ Len(ev.cs) = 1
                /\ ev' = [ev EXCEPT !.cs = <<>>,
                                    !.out = EvaluationOutcome("SUCCESS", NoneVal, "")]
                /\ epc' = "done"
    /\ UNCHANGED <<rpc, rs, trace, modes, host, hist, pin, pout, aev>>

\* the variant of the IntentEvaluatedSuccess branch that evaluates the wrapped intent again
EvalSkipReinvoking ==
    /\ epc = "running"
    /\ Len(ev.cs) > 0
    /\ NodeAt(ev.tree, Top(ev.cs).path).k = "IntentEvaluatedSuccess"
    /\ trace' = trace \o eval(NodeAt(ev.tree, Top(ev.cs).path).ch[1], modes).trace
    /\ ev' = [ev EXCEPT !.cs = PopFrame(@)]
    /\ UNCHANGED <<rpc, rs, epc, modes, host, hist, pin, pout, aev>>

\* the IntentEvaluatedSuccess branch: already evaluated, skip
EvalSkip ==
    /\ epc = "running"
    /\ Len(ev.cs) > 0
    /\ NodeAt(ev.tree, Top(ev.cs).path).k = "IntentEvaluatedSuccess"
    /\ ev' = [ev EXCEPT !.cs = PopFrame(@)]
    /\ UNCHANGED <<rpc, rs, epc, trace, modes, host, hist, pin, pout, aev>>

\* the variant of the else branch that skips a node it does not evaluate
EvalUnexpectedSkipping ==
    /\ epc = "running"
    /\ Len(ev.cs) > 0
    /\ NodeAt(ev.tree, Top(ev.cs).path).k \notin
          {"Intent", "ListElement", "IntentEvaluatedSuccess"}
    /\ ev' = [ev EXCEPT !.cs = PopFrame(@)]
    /\ UNCHANGED <<rpc, rs, epc, trace, modes, host, hist, pin, pout, aev>>

\* the else branch: any other node on top of the stack
EvalUnexpected ==
    /\ epc = "running"
    /\ Len(ev.cs) > 0
    /\ NodeAt(ev.tree, Top(ev.cs).path).k \notin
          {"Intent", "ListElement", "IntentEvaluatedSuccess"}
    /\ ev' = [ev EXCEPT !.out = EvaluationOutcome("ABORTED_UNRECOVERABLE", NoneVal, "TypeError")]
    /\ epc' = "done"
    /\ UNCHANGED <<rpc, rs, trace, modes, host, hist, pin, pout, aev>>

\* the while loop ends on an empty stack
EvalTerminated ==
    /\ epc = "running"
    /\ Len(ev.cs) = 0
    /\ ev' = [ev EXCEPT !.out = EvaluationOutcome("ABORTED_UNRECOVERABLE", NoneVal,
                                                  "RuntimeError")]
    /\ epc' = "done"
    /\ UNCHANGED <<rpc, rs, trace, modes, host, hist, pin, pout, aev>>

\* after SUCCESS the host builds a second Evaluator on the same tree and evaluates again
HostReEvaluate ==
    /\ epc = "done"
    /\ ev.out.status = "SUCCESS"
    /\ ~hist.reeval
    /\ aev.pc # "running"
    /\ aev' = NoAsyncEvaluator
    /\ epc' = "running"
    /\ ev' = [NewEvaluator(ev.tree, ev.nid) EXCEPT !.shared = ev.shared]
    /\ modes' \in ModeChoices
    /\ hist' = [hist EXCEPT !.reeval = TRUE, !.prev = ev.out, !.startLen = Len(trace),
                            !.evalRoot = ev.tree,
                            !.evalStart = [nid |-> ev.nid, len |-> Len(trace)]]
    /\ UNCHANGED <<rpc, rs, trace, host, pin, pout>>

\* after ABORTED_RECOVERABLE the host builds Resolver(runtime_context, dsl=tree)
HostRecover ==
    /\ epc = "done"
    /\ ev.out.status = "ABORTED_RECOVERABLE"
    /\ host.rounds < MaxRounds
    /\ ev.tree.k = "ListElement"
    /\ aev.pc # "running"
    /\ aev' = NoAsyncEvaluator
    /\ rpc' = "new"
    /\ rs' = NewResolver(rs.rt, deepcopy(ev.tree).tree, ev.nid)
    /\ ev' = [ev EXCEPT !.shared = deepcopy(ev.tree).shared]
    /\ epc' = "none"
    /\ host' = [host EXCEPT !.rounds = @ + 1]
    /\ hist' = [hist EXCEPT !.snap = NoSnap, !.resumed = FALSE, !.resumeAt = 0,
                            !.resumeReq = 0]
    /\ UNCHANGED <<trace, modes, pin, pout>>

Next ==
    \/ HostStep
    \/ HostReply
    \/ ResolveIteration
    \/ ResolveReturn
    \/ HostEvaluate
    \/ EvalIntent
    \/ EvalListPush
    \/ EvalListPop
    \/ EvalSkip
    \/ EvalUnexpected
    \/ EvalTerminated
    \/ HostReEvaluate
    \/ HostRecover

Spec == Init /\ [][Next]_vars

(***************************************************************************)
(* The host awaits AsyncEvaluator.evaluate() in an event loop.             *)
(***************************************************************************)
\* what a caller observes of the tool invocations: which intent, which tool, which arguments,
\* whether it returned
Observed(tr) ==
    [i \in 1..Len(tr) |->
        [id |-> tr[i].id, name |-> tr[i].name, args |-> tr[i].args, ok |-> tr[i].ok]]

\* Evaluator.evaluate has returned or raised
EvaluateEnded == epc \in {"done", "escaped"} /\ hist.evalRoot # <<>>

\* after an evaluation the host hands a copy of the tree it gave to the Evaluator, with the
\* same runtime context, to an AsyncEvaluator and awaits evaluate()
HostEvaluateAsync ==
    /\ EvaluateEnded
    /\ aev.pc = "none"
    /\ aev' = [NewAsyncEvaluator(hist.evalRoot, hist.evalStart.nid) EXCEPT
                  !.pc = "running",
                  !.ref = [out |-> ev.out, exc |-> ev.exc, tree |-> ev.tree,
                           calls |-> Observed(SubSeq(trace, hist.evalStart.len + 1,
                                                     Len(trace)))]]
    /\ UNCHANGED <<rpc, rs, epc, ev, trace, modes, host, hist, pin, pout>>

\* evaluate() goes on by one turn of its loop; it reaches no await that suspends it, so no
\* other task of the event loop runs before it returns or raises
AsyncEvaluate ==
    /\ aev.pc = "running"
    /\ aev' = AsyncIteration(aev)
    /\ UNCHANGED <<rpc, rs, epc, ev, trace, modes, host, hist, pin, pout>>

\* a host that also evaluates with an AsyncEvaluator
AsyncNext ==
    \/ Next
    \/ HostEvaluateAsync
    \/ AsyncEvaluate

AsyncSpec == Init /\ [][AsyncNext]_vars

(***************************************************************************)
(* The host edits the tree it holds (DslContainerBase.insert_child).       *)
(***************************************************************************)
\* the nodes a host inserts: an intent whose slots hold fuzzy values, a value, a slot
InsertedNodes(b) ==
    { Intent(b, "multiply",
        <<Slot(b + 1, "a", FuzzyValue(b + 2, "few")),
          Slot(b + 3, "b", FuzzyValue(b + 4, "many"))>>),
      Value(b, 9),
      Slot(b, "b", Value(b + 1, 9)) }

\* the indices it passes (Python indices: first, second, beyond the end, last but one)
InsertIndices == {0, 1, 5, 0 - 1}

\* the nodes it calls insert_child on: the root, a child of the root, the first child of
\* such a child
InsertPaths(t) ==
    {<<>>} \cup {<<i>> : i \in 1..Len(t.ch)}
           \cup {<<i, 1>> : i \in {k \in 1..Len(t.ch) : Len(t.ch[k].ch) > 0}}

\* after an evaluation the host calls insert_child on a node of the tree the Evaluator
\* holds: the tree of every later Evaluator or Resolver has the new child, or the call
\* raised and the tree is as it was
HostInsertChild ==
    /\ epc = "done"
    /\ aev.pc # "running"
    /\ host.inserts < MaxInserts
    /\ \E p \in InsertPaths(ev.tree), index \in InsertIndices, new \in InsertedNodes(ev.nid) :
         LET m == insert_child(ev.tree, p, index + 1, new)
         IN /\ ev' = [ev EXCEPT !.tree = m.tree, !.nid = @ + Cardinality(AllIds(new))]
            /\ rs' = IF ev.shared THEN [rs EXCEPT !.tree = m.tree] ELSE rs
            /\ host' = [host EXCEPT !.inserts = @ + 1, !.raised = m.err]
    /\ UNCHANGED <<rpc, epc, trace, modes, hist, pin, pout, aev>>

\* a host that also edits the tree between evaluations
EditNext ==
    \/ Next
    \/ HostInsertChild

EditSpec == Init /\ [][EditNext]_vars

\* a host that may also call step() again after a step that raised or returned a request:
\* with the Interaction it passed before, with a new one, or with None
RetryNext ==
    \/ Next
    \/ HostResubmit
    \/ HostReplyAfterRaise
    \/ HostStepAgain

RetrySpec == Init /\ [][RetryNext]_vars

\* answers of the oracle that hold no placeholder: a value, or an intent whose slots hold
\* values
PlainAnswers == {"5", "add(a=F(\"few\"), b=F(\"many\"))"}

\* the host has followed the protocol, and the oracle has turned each answer so far into
\* nodes without a placeholder
ValueAnswersOnly ==
    /\ host.retries = 0
    /\ Len(rs.qna) = hist.interactions
    /\ \A i \in 1..Len(rs.qna) : rs.qna[i].a \in PlainAnswers

\* requests answered in a run of fully_resolve_in_text_mode (resolver.py 404-435) in which
\* every answer so far held no placeholder
MaxValueAnswers == 3

\* the loop of fully_resolve_in_text_mode answers one more request: the run on a tree
\* with three ASK nodes goes on after MaxOracle answers when these held no placeholder
HostReplyInTextMode ==
    /\ rpc = "paused"
    /\ host.used >= MaxOracle
    /\ host.used < MaxValueAnswers
    /\ ValueAnswersOnly
    /\ rpc' = "running"
    /\ rs' = [rs EXCEPT !.ia = [none |-> FALSE, req |-> rs.req.requester, consumed |-> FALSE],
                        !.ret = ""]
    /\ host' = [host EXCEPT !.used = @ + 1]
    /\ hist' = [hist EXCEPT !.resumed = TRUE, !.resumeAt = Len(rs.hooks),
                            !.resumeReq = rs.req.requester, !.stepTree = rs.tree,
                            !.stepQna = rs.qna, !.stepLog = rs.log,
                            !.stepAborts = rs.alog.n,
                            !.interactions = @ + 1]
    /\ UNCHANGED <<epc, ev, trace, modes, pin, pout, aev>>

\* every call of step() a host can make: on and off the protocol, and the longer run in
\* text mode
StepNext ==
    \/ RetryNext
    \/ HostReplyInTextMode

\* a step that was called runs until it returns or raises: the thread inside step() is
\* scheduled as long as the loop of resolve() has an iteration to run.  StepRuns is an
\* iteration of that loop, or its exit.
StepRuns == rpc = "running" /\ rs' # rs

\* weak fairness of ResolveIteration \/ ResolveReturn, written out: that action is enabled
\* exactly when rpc = "running", and each of its steps changes rs
FairSpec ==
    Init /\ [][StepNext]_vars /\ ([]<>(rpc # "running") \/ []<><<StepRuns>>_vars)

(***************************************************************************)
(* Functions of the library applied on their own to bounded inputs.        *)
(***************************************************************************)
\* depth of the trees is_resolved is applied to
MaxDepth == 3

\* the nodes without children, one of each variant
LeafNodes ==
    {Value(0, 1), FuzzyValue(0, "few"), Ask(0, "q"), QueryFill(0, "f"), QueryUser(0, "u"),
     QueryGather(0, "g"), Abort(0), AbortWithNewDsl(0, ListElement(0, <<>>))}

\* the nodes built by putting one variant around the tree t
WrapsOf(t) ==
    IF t.k = "Slot" THEN {Intent(0, "foo", <<t>>), PropagateSlots(0, <<t>>)}
    ELSE {Slot(0, "x", t), ListElement(0, <<t>>), ListElement(0, <<Value(0, 1), t>>),
          ListValue(0, <<Value(0, 1), t>>)}
         \cup (IF t.k = "Intent"
               THEN {ReturnValue(0, t), IntentEvaluatedSuccess(0, t, NoneVal),
                     IntentRuntimeErrorResolver(0, t, "err")}
               ELSE {})

RECURSIVE TreesOfDepth(_)
TreesOfDepth(d) ==
    IF d = 0 THEN LeafNodes
    ELSE UNION {{t} \cup WrapsOf(t) : t \in TreesOfDepth(d - 1)}

(***************************************************************************)
(* common/dsl_utils.py.  A string is a sequence of one-character strings.  *)
(***************************************************************************)
\* length of the strings split_top_level_commas is applied to
MaxLen == 4

\* the characters of those strings: separator, two kinds of brackets, the two quotes, the
\* backslash, a plain character and a blank
Chars == {",", "(", ")", "[", "]", "'", "\"", "\\", "a", " "}

StringsUpTo(n) == UNION {[1..k -> Chars] : k \in 0..n}

\* str.strip()
strip(s) ==
    LET solid == {i \in 1..Len(s) : s[i] # " "}
    IN IF solid = {} THEN <<>>
       ELSE SubSeq(s, CHOOSE i \in solid : \A j \in solid : i <= j,
                      CHOOSE i \in solid : \A j \in solid : j <= i)

SplitOk(args) == [ok |-> TRUE, args |-> args, err |-> ""]
SplitError(msg) == [ok |-> FALSE, args |-> <<>>, err |-> msg]

\* the closing character of an opening one
Closing(c) == CASE c = "(" -> ")" [] c = "[" -> "]" [] OTHER -> "}"

\* one iteration of the while loop of split_top_level_commas on the character at index i
\* (1-based), the locals of the loop in st: err is set by a raise; esc says that the
\* character before was a backslash inside a string which took this one with it (i += 2)
SplitStep(str, i, st) ==
    LET c == str[i]
    IN IF st.esc THEN [st EXCEPT !.current = Append(@, c), !.esc = FALSE]
       ELSE IF st.in_quote # ""
       THEN IF c = "\\" /\ i + 1 <= Len(str)
            THEN [st EXCEPT !.current = Append(@, c), !.esc = TRUE]
            ELSE [st EXCEPT !.current = Append(@, c),
                            !.in_quote = IF c = @ THEN "" ELSE @]
       ELSE IF c \in {"'", "\""}
            THEN [st EXCEPT !.current = Append(@, c), !.in_quote = c]
       ELSE IF c \in {"(", "[", "{"}
            THEN [st EXCEPT !.stack = Append(@, c), !.current = Append(@, c)]
       ELSE IF c \in {")", "]", "}"}
            THEN IF Len(st.stack) = 0 THEN [st EXCEPT !.err = "Unmatched closing"]
                 ELSE IF Closing(st.stack[Len(st.stack)]) # c
                      THEN [st EXCEPT !.err = "Mismatched group"]
                 ELSE [st EXCEPT !.stack = SubSeq(@, 1, Len(@) - 1),
                                 !.current = Append(@, c)]
       ELSE IF c = "," /\ Len(st.stack) = 0
            THEN IF strip(st.current) = <<>>
                 THEN [st EXCEPT !.err = "Empty top-level argument"]
                 ELSE [st EXCEPT !.args = Append(@, strip(st.current)), !.current = <<>>]
       ELSE [st EXCEPT !.current = Append(@, c)]

RECURSIVE SplitScan(_, _, _, _)
\* the while loop of split_top_level_commas over the characters lo..hi, in order: the
\* first half, then the second half from the state the first one ends in
SplitScan(str, lo, hi, st) ==
    IF st.err # "" \/ lo > hi THEN st
    ELSE IF lo = hi THEN SplitStep(str, lo, st)
    ELSE SplitScan(str, (lo + hi) \div 2 + 1, hi, SplitScan(str, lo, (lo + hi) \div 2, st))

\* what follows the loop of split_top_level_commas
SplitEnd(str, st) ==
    IF st.err # "" THEN SplitError(st.err)
    ELSE IF st.in_quote # "" THEN SplitError("Unterminated string literal")
    ELSE IF Len(st.stack) > 0 THEN SplitError("Unbalanced or mismatched grouping")
    ELSE IF strip(st.current) # <<>> THEN SplitOk(Append(st.args, strip(st.current)))
    ELSE IF strip(str) # <<>> /\ strip(str)[Len(strip(str))] = ","
         THEN SplitError("Trailing empty top-level argument")
    ELSE SplitOk(st.args)

RECURSIVE SplitAtEveryComma(_)
\* the variant that splits at every comma, whatever groups and strings are open
SplitAtEveryComma(str) ==
    LET commas == {i \in 1..Len(str) : str[i] = ","}
    IN IF commas = {} THEN SplitOk(IF strip(str) = <<>> THEN <<>> ELSE <<strip(str)>>)
       ELSE LET first == CHOOSE i \in commas : \A j \in commas : i <= j
                rest == SplitAtEveryComma(SubSeq(str, first + 1, Len(str)))
            IN IF strip(SubSeq(str, 1, first - 1)) = <<>> \/ ~rest.ok \/ rest.args = <<>>
               THEN SplitError("Empty top-level argument")
               ELSE SplitOk(<<strip(SubSeq(str, 1, first - 1))>> \o rest.args)

\* split_top_level_commas(args_str)
split_top_level_commas(str) ==
    SplitEnd(str, SplitScan(str, 1, Len(str),
                            [args |-> <<>>, stack |-> <<>>, current |-> <<>>,
                             in_quote |-> "", esc |-> FALSE, err |-> ""]))

(***************************************************************************)
(* Rendering (to_dsl_representation) and parsing (parse_dsl_element).  The *)
(* nodes of this part carry their texts as sequences of characters: name   *)
(* is the intent name, the slot name, the question or the fuzzy text, val  *)
(* the text of a Value, aux the original intent of a QueryGather or the    *)
(* list of an AbortWithNewDsl.                                             *)
(***************************************************************************)
Parsed(k, name, val, ch, aux) == Node(k, 0, name, val, ch, aux)

ParseOk(n) == [ok |-> TRUE, node |-> n, err |-> ""]
ParseError(msg) == [ok |-> FALSE, node |-> <<>>, err |-> msg]
TextOk(t) == [ok |-> TRUE, s |-> t, err |-> ""]
TextError(msg) == [ok |-> FALSE, s |-> <<>>, err |-> msg]

DQ == "\""
SQ == "'"

startswith(s, c) == Len(s) > 0 /\ s[1] = c
endswith(s, c) == Len(s) > 0 /\ s[Len(s)] = c
\* text[1:-1]
Interior(s) == SubSeq(s, 2, Len(s) - 1)
\* str.find(c), 1-based, 0 when c is absent
find(s, c) ==
    IF \E i \in 1..Len(s) : s[i] = c
    THEN CHOOSE i \in 1..Len(s) : s[i] = c /\ \A j \in 1..(i - 1) : s[j] # c
    ELSE 0

RECURSIVE Join(_)
\* ", ".join(parts)
Join(parts) ==
    IF parts = <<>> THEN <<>>
    ELSE IF Len(parts) = 1 THEN parts[1]
    ELSE parts[1] \o <<",", " ">> \o Join(Tail(parts))

\* strip_quotes(val) of the parser: double quotes only
strip_quotes(val) ==
    LET v == strip(val)
    IN IF startswith(v, DQ) /\ endswith(v, DQ) THEN TextOk(Interior(v))
       ELSE TextError("String must start and end with a double quote")

RECURSIVE Escaped(_)
\* s with a backslash before every double quote and every backslash
Escaped(s) ==
    IF s = <<>> THEN <<>>
    ELSE (IF s[1] \in {DQ, "\\"} THEN <<"\\", s[1]>> ELSE <<s[1]>>) \o Escaped(Tail(s))

\* quote_and_escape(s)
quote_and_escape(s) == <<DQ>> \o Escaped(s) \o <<DQ>>

Digits == {"0", "1", "2", "3", "4", "5", "6", "7", "8", "9"}
IsDigits(s) == \A i \in 1..Len(s) : s[i] \in Digits
Unsigned(s) == IF Len(s) > 0 /\ s[1] \in {"+", "-"} THEN Tail(s) ELSE s

RECURSIVE StripLeadingZeros(_)
StripLeadingZeros(d) ==
    IF d = <<>> THEN <<"0">>
    ELSE IF Len(d) > 1 /\ d[1] = "0" THEN StripLeadingZeros(Tail(d))
    ELSE d

RECURSIVE StripTrailingZeros(_)
StripTrailingZeros(d) ==
    IF d = <<>> THEN <<"0">>
    ELSE IF Len(d) > 1 /\ d[Len(d)] = "0" THEN StripTrailingZeros(SubSeq(d, 1, Len(d) - 1))
    ELSE d

\* whether int(s) succeeds, for texts of signs, digits, points, blanks and other characters
\* (no underscore)
IsIntText(s) == Unsigned(strip(s)) # <<>> /\ IsDigits(Unsigned(strip(s)))

\* str(int(s))
IntText(s) ==
    LET d == StripLeadingZeros(Unsigned(strip(s)))
    IN IF startswith(strip(s), "-") /\ d # <<"0">> THEN <<"-">> \o d ELSE d

\* whether float(s) succeeds, for the decimal texts with one point (no exponent, no inf or
\* nan among the texts applied)
IsFloatText(s) ==
    LET u == Unsigned(strip(s))
        dot == find(u, ".")
    IN /\ dot > 0
       /\ Len(u) > 1
       /\ IsDigits(SubSeq(u, 1, dot - 1))
       /\ IsDigits(SubSeq(u, dot + 1, Len(u)))

\* str(float(s)), for decimal texts short enough for the positional form
FloatText(s) ==
    LET u == Unsigned(strip(s))
        dot == find(u, ".")
        body == StripLeadingZeros(SubSeq(u, 1, dot - 1)) \o <<".">>
                \o StripTrailingZeros(SubSeq(u, dot + 1, Len(u)))
    IN IF startswith(strip(s), "-") THEN <<"-">> \o body ELSE body

\* the reserved call heads
kwF == <<"F">>
kwASK == <<"A", "S", "K">>
kwQUERY_FILL == <<"Q", "U", "E", "R", "Y", "_", "F", "I", "L", "L">>
kwQUERY_USER == <<"Q", "U", "E", "R", "Y", "_", "U", "S", "E", "R">>
kwQUERY_GATHER == <<"Q", "U", "E", "R", "Y", "_", "G", "A", "T", "H", "E", "R">>
kwSAME_AS_PREVIOUS_INTENT ==
    <<"S", "A", "M", "E", "_", "A", "S", "_", "P", "R", "E", "V", "I", "O", "U", "S", "_",
      "I", "N", "T", "E", "N", "T">>
kwPROPAGATE_SLOT ==
    <<"P", "R", "O", "P", "A", "G", "A", "T", "E", "_", "S", "L", "O", "T">>
kwABORT == <<"A", "B", "O", "R", "T">>
kwABORT_WITH_NEW_INTENTS ==
    kwABORT \o <<"_", "W", "I", "T", "H", "_", "N", "E", "W", "_", "I", "N", "T", "E", "N",
                 "T", "S">>

\* name(args)
Call(name, args) == name \o <<"(">> \o args \o <<")">>

\* Value.to_dsl_representation, the value being a string
ValueText(v) ==
    IF IsIntText(v) THEN IntText(v)
    ELSE IF IsFloatText(v) THEN FloatText(v)
    ELSE <<DQ>> \o v \o <<DQ>>

\* the texts repr() is made of: the class name and the field names of each dataclass
reprValue ==
    <<"V", "a", "l", "u", "e", "(", "v", "a", "l", "u", "e", "=">>
reprFuzzyValue ==
    <<"F", "u", "z", "z", "y", "V", "a", "l", "u", "e", "(", "v", "a", "l", "u", "e", "=">>
reprAsk ==
    <<"A", "s", "k", "(", "q", "u", "e", "s", "t", "i", "o", "n", "=">>
reprQueryFill ==
    <<"Q", "u", "e", "r", "y", "F", "i", "l", "l", "(", "q", "u", "e", "r", "y", "=">>
reprQueryUser ==
    <<"Q", "u", "e", "r", "y", "U", "s", "e", "r", "(", "q", "u", "e", "r", "y", "=">>
reprQueryGather ==
    <<"Q", "u", "e", "r", "y", "G", "a", "t", "h", "e", "r", "(", "o", "r", "i", "g", "i",
      "n", "a", "l", "_", "i", "n", "t", "e", "n", "t", "=">>
reprQuery ==
    <<",", " ", "q", "u", "e", "r", "y", "=">>
reprAbort ==
    <<"A", "b", "o", "r", "t", "(", ")">>
reprAbortWithNewDsl ==
    <<"A", "b", "o", "r", "t", "W", "i", "t", "h", "N", "e", "w", "D", "s", "l", "(", "n",
      "e", "w", "_", "d", "s", "l", "=">>
reprSameAsPreviousIntent ==
    <<"S", "a", "m", "e", "A", "s", "P", "r", "e", "v", "i", "o", "u", "s", "I", "n", "t",
      "e", "n", "t", "(", ")">>
reprIntent ==
    <<"I", "n", "t", "e", "n", "t", "(", "n", "a", "m", "e", "=">>
reprSlot ==
    <<"S", "l", "o", "t", "(", "n", "a", "m", "e", "=">>
reprReturnValue ==
    <<"R", "e", "t", "u", "r", "n", "V", "a", "l", "u", "e", "(", "i", "n", "t", "e", "n",
      "t", "=">>
reprListValue ==
    <<"L", "i", "s", "t", "V", "a", "l", "u", "e", "(", "v", "a", "l", "u", "e", "s", "=",
      "[">>
reprIntentRuntimeErrorResolver ==
    <<"I", "n", "t", "e", "n", "t", "R", "u", "n", "t", "i", "m", "e", "E", "r", "r", "o",
      "r", "R", "e", "s", "o", "l", "v", "e", "r", "(", "i", "n", "t", "e", "n", "t", "=">>
reprErrorMessage ==
    <<",", " ", "e", "r", "r", "o", "r", "_", "m", "e", "s", "s", "a", "g", "e", "=">>
reprIntentEvaluatedSuccess ==
    <<"I", "n", "t", "e", "n", "t", "E", "v", "a", "l", "u", "a", "t", "e", "d", "S", "u",
      "c", "c", "e", "s", "s", "(", "i", "n", "t", "e", "n", "t", "=">>
reprEvaluationOutcome ==
    <<",", " ", "e", "v", "a", "l", "u", "a", "t", "i", "o", "n", "_", "o", "u", "t", "c",
      "o", "m", "e", "=", "E", "v", "a", "l", "u", "a", "t", "i", "o", "n", "O", "u", "t",
      "c", "o", "m", "e", "(", "v", "a", "l", "u", "e", "=">>
reprSuccess ==
    <<",", " ", "s", "t", "a", "t", "u", "s", "=", "<", "E", "v", "a", "l", "u", "a", "t",
      "i", "o", "n", "S", "t", "a", "t", "u", "s", ".", "S", "U", "C", "C", "E", "S", "S",
      ":", " ", SQ, "s", "u", "c", "c", "e", "s", "s", SQ, ">", ",", " ", "e", "r", "r",
      "o", "r", "=", "N", "o", "n", "e", ")", ")">>
reprListElement ==
    <<"L", "i", "s", "t", "E", "l", "e", "m", "e", "n", "t", "(">>
reprPropagateSlots ==
    <<"P", "r", "o", "p", "a", "g", "a", "t", "e", "S", "l", "o", "t", "s", "(">>
reprNone ==
    <<"N", "o", "n", "e">>
reprItem ==
    <<" ", "i", "t", "e", "m", ")">>
reprItems ==
    <<" ", "i", "t", "e", "m", "s", ")">>

RECURSIVE StrReprBody(_, _)
\* the characters of s between the quotes q of repr(s): a backslash before every backslash
\* and before every q
StrReprBody(s, q) ==
    IF s = <<>> THEN <<>>
    ELSE (IF s[1] \in {q, "\\"} THEN <<"\\", s[1]>> ELSE <<s[1]>>) \o StrReprBody(Tail(s), q)

\* repr(s) of a str of printable characters: in single quotes, or in double quotes when s
\* holds a single quote and no double quote
StrRepr(s) ==
    LET has(c) == \E i \in 1..Len(s) : s[i] = c
        q == IF has(SQ) /\ ~has(DQ) THEN DQ ELSE SQ
    IN <<q>> \o StrReprBody(s, q) \o <<q>>

RECURSIVE Decimal(_)
\* str(i) of an int
Decimal(i) ==
    LET digit(d) == <<"0", "1", "2", "3", "4", "5", "6", "7", "8", "9">>[d + 1]
    IN IF i < 0 THEN <<"-">> \o Decimal(0 - i)
       ELSE IF i < 10 THEN <<digit(i)>>
       ELSE Decimal(i \div 10) \o <<digit(i % 10)>>

RECURSIVE repr(_)
\* repr(self): the __repr__ the dataclass decorator generates from the fields of the class
\* (Value, FuzzyValue, the placeholders, Intent and Slot with their name only, ReturnValue,
\* ListValue, IntentEvaluatedSuccess, IntentRuntimeErrorResolver), and
\* DslContainerBase.__repr__ for ListElement and PropagateSlots
repr(n) ==
    LET items == Join([i \in 1..Len(n.ch) |-> repr(n.ch[i])])
        count == Decimal(Len(n.ch)) \o (IF Len(n.ch) = 1 THEN reprItem ELSE reprItems)
    IN CASE n.k = "Value" -> reprValue \o StrRepr(n.val) \o <<")">>
         [] n.k = "FuzzyValue" -> reprFuzzyValue \o StrRepr(n.name) \o <<")">>
         [] n.k = "Ask" -> reprAsk \o StrRepr(n.name) \o <<")">>
         [] n.k = "QueryFill" -> reprQueryFill \o StrRepr(n.name) \o <<")">>
         [] n.k = "QueryUser" -> reprQueryUser \o StrRepr(n.name) \o <<")">>
         [] n.k = "QueryGather" ->
                reprQueryGather \o StrRepr(n.aux) \o reprQuery \o StrRepr(n.name) \o <<")">>
         [] n.k = "Abort" -> reprAbort
         [] n.k = "AbortWithNewDsl" -> reprAbortWithNewDsl \o repr(n.aux) \o <<")">>
         [] n.k = "SameAsPreviousIntent" -> reprSameAsPreviousIntent
         [] n.k = "Intent" -> reprIntent \o StrRepr(n.name) \o <<")">>
         [] n.k = "Slot" -> reprSlot \o StrRepr(n.name) \o <<")">>
         [] n.k = "ReturnValue" -> reprReturnValue \o repr(n.ch[1]) \o <<")">>
         [] n.k = "ListValue" -> reprListValue \o items \o <<"]", ")">>
         [] n.k = "IntentRuntimeErrorResolver" ->
                reprIntentRuntimeErrorResolver \o repr(n.ch[1]) \o reprErrorMessage
                    \o StrRepr(n.name) \o <<")">>
         [] n.k = "IntentEvaluatedSuccess" ->
                reprIntentEvaluatedSuccess \o repr(n.ch[1]) \o reprEvaluationOutcome
                    \o (IF n.val = NoneVal THEN reprNone ELSE Decimal(n.val)) \o reprSuccess
         [] n.k = "PropagateSlots" -> reprPropagateSlots \o count
         [] OTHER -> reprListElement \o count

RECURSIVE to_dsl_representation(_)
\* to_dsl_representation of every node kind: the overrides, DslContainerBase.to_dsl_representation
\* for ListElement, and DslBase.to_dsl_representation (repr(self)) for the classes that
\* define none: ListValue, IntentEvaluatedSuccess, IntentRuntimeErrorResolver
to_dsl_representation(n) ==
    LET parts == [i \in 1..Len(n.ch) |-> to_dsl_representation(n.ch[i])]
        failed == \E i \in 1..Len(n.ch) : ~parts[i].ok
        texts == [i \in 1..Len(n.ch) |-> parts[i].s]
    IN CASE n.k = "Value" -> TextOk(ValueText(n.val))
         [] n.k = "FuzzyValue" ->
                IF \E i \in 1..Len(n.name) : n.name[i] \in {DQ, SQ}
                THEN TextError("Fuzzy value contains quotes, which are not allowed.")
                ELSE TextOk(Call(kwF, <<DQ>> \o n.name \o <<DQ>>))
         [] n.k = "Ask" -> TextOk(Call(kwASK, quote_and_escape(n.name)))
         [] n.k = "QueryFill" -> TextOk(Call(kwQUERY_FILL, quote_and_escape(n.name)))
         [] n.k = "QueryUser" -> TextOk(Call(kwQUERY_USER, quote_and_escape(n.name)))
         [] n.k = "QueryGather" ->
                TextOk(Call(kwQUERY_GATHER,
                            Join(<<quote_and_escape(n.aux), quote_and_escape(n.name)>>)))
         [] n.k = "SameAsPreviousIntent" -> TextOk(Call(kwSAME_AS_PREVIOUS_INTENT, <<>>))
         [] n.k = "Abort" -> TextOk(Call(kwABORT, <<>>))
         [] n.k = "AbortWithNewDsl" ->
                LET inner == to_dsl_representation(n.aux)
                IN IF inner.ok THEN TextOk(Call(kwABORT_WITH_NEW_INTENTS, inner.s)) ELSE inner
         [] n.k = "ReturnValue" -> parts[1]
         [] n.k = "Slot" ->
                IF failed THEN parts[1] ELSE TextOk(n.name \o <<"=">> \o texts[1])
         [] n.k = "Intent" ->
                IF failed THEN TextError("slot") ELSE TextOk(Call(n.name, Join(texts)))
         [] n.k = "PropagateSlots" ->
                IF failed THEN TextError("slot") ELSE TextOk(Call(kwPROPAGATE_SLOT, Join(texts)))
         [] n.k = "ListElement" ->
                IF failed THEN TextError("item") ELSE TextOk(<<"[">> \o Join(texts) \o <<"]">>)
         [] OTHER -> TextOk(repr(n))

\* the kinds that are DSLValueBase
DSLValueKinds == {"Value", "FuzzyValue", "ListValue", "ReturnValue", "SameAsPreviousIntent"}

\* isinstance(n, cls) for the classes the parser casts to: what strict_cast checks before
\* it returns n, and raises TypeError otherwise
IsInstance(n, cls) ==
    CASE cls = "DSLValueBase" -> n.k \in DSLValueKinds
      [] cls = "ListElement" -> n.k = "ListElement"
      [] OTHER -> TRUE

\* one iteration of the while loop of the parser's split_top_level_commas, on the
\* character at index j (1-based) when the loop is there, the locals of the loop in st: i
\* and start are i + 1 and start_idx + 1.  After a split at a comma i is advanced twice,
\* so the character after the comma is passed over unread.
ParserSplitStep(str, j, st) ==
    LET c == str[j]
        on == [st EXCEPT !.i = j + 1]
    IN IF st.i # j THEN st
       ELSE IF c = DQ THEN [on EXCEPT !.in_quote = ~@]
       ELSE IF st.in_quote THEN on
       ELSE IF c \in {"(", "["} THEN [on EXCEPT !.level = @ + 1]
       ELSE IF c \in {")", "]"} THEN [on EXCEPT !.level = @ - 1]
       ELSE IF c = "," /\ st.level = 0
            THEN [st EXCEPT !.args = Append(@, strip(SubSeq(str, st.start, j - 1))),
                            !.start = j + 1, !.i = j + 2]
       ELSE on

RECURSIVE ParserSplitScan(_, _, _, _)
\* the while loop over the characters lo..hi, in order: the first half, then the second
\* half from the state the first one ends in
ParserSplitScan(str, lo, hi, st) ==
    IF lo > hi \/ st.i > hi THEN st
    ELSE IF lo = hi THEN ParserSplitStep(str, lo, st)
    ELSE ParserSplitScan(str, (lo + hi) \div 2 + 1, hi,
                         ParserSplitScan(str, lo, (lo + hi) \div 2, st))

\* split_top_level_commas(param_str) of the parser: the list of the arguments, the rest
\* after the last comma added when i > start_idx
parser_split_top_level_commas(str) ==
    LET st == ParserSplitScan(str, 1, Len(str),
                              [args |-> <<>>, level |-> 0, in_quote |-> FALSE,
                               start |-> 1, i |-> 1])
    IN IF st.i > st.start
       THEN Append(st.args, strip(SubSeq(str, st.start, Len(str))))
       ELSE st.args

\* the first index of the sequence of results res that failed, 0 when none did
FirstFailed(res) ==
    IF \E i \in 1..Len(res) : ~res[i].ok
    THEN CHOOSE i \in 1..Len(res) : ~res[i].ok /\ \A j \in 1..(i - 1) : res[j].ok
    ELSE 0

\* a call head with one quoted argument: cls(strip_quotes(args))
ParseQuoted(k, args) ==
    LET q == strip_quotes(args)
    IN IF q.ok THEN ParseOk(Parsed(k, q.s, <<>>, <<>>, <<>>)) ELSE ParseError(q.err)

RECURSIVE parse_dsl_element(_, _, _, _)
\* parse_dsl_element(text, wrap_intent_as_value, list_type, list_content_type); slots is
\* the loop over the named arguments that parse_intent and the PROPAGATE_SLOT branch share
\* (the first argument without "=" or with a value that does not parse ends it), intent is
\* parse_intent(name, args)
parse_dsl_element(text, wrap_intent_as_value, list_type, list_content_type) ==
    LET t == strip(text)
        open_paren == find(t, "(")
        name == strip(SubSeq(t, 1, open_paren - 1))
        args == strip(SubSeq(t, open_paren + 1, Len(t) - 1))
        is_list == startswith(t, "[") /\ endswith(t, "]")
        sp == parser_split_top_level_commas(IF is_list THEN Interior(t) ELSE args)
        \* the items of a list, each one parsed and then cast to the content type
        items == [i \in 1..Len(sp) |->
                     LET e == parse_dsl_element(sp[i], wrap_intent_as_value, list_type,
                                                list_content_type)
                     IN IF e.ok /\ ~IsInstance(e.node, list_content_type)
                        THEN ParseError("TypeError") ELSE e]
        sign(i) == find(sp[i], "=")
        values == [i \in 1..Len(sp) |->
                      IF sign(i) = 0 THEN ParseError("args missing =")
                      ELSE parse_dsl_element(strip(SubSeq(sp[i], sign(i) + 1, Len(sp[i]))),
                                             TRUE, "ListValue", "DSLValueBase")]
        slots == IF FirstFailed(values) # 0 THEN values[FirstFailed(values)]
                 ELSE ParseOk([i \in 1..Len(sp) |->
                                  Parsed("Slot", strip(SubSeq(sp[i], 1, sign(i) - 1)), <<>>,
                                         <<values[i].node>>, <<>>)])
        intent == IF slots.ok THEN ParseOk(Parsed("Intent", name, <<>>, slots.node, <<>>))
                  ELSE slots
        new_dsl == parse_dsl_element(args, FALSE, "ListElement", "DslBase")
    IN IF t = <<>> THEN ParseError("Empty element.")
       ELSE IF is_list
       THEN IF FirstFailed(items) # 0 THEN items[FirstFailed(items)]
            ELSE ParseOk(Parsed(list_type, <<>>, <<>>,
                                [i \in 1..Len(sp) |-> items[i].node], <<>>))
       ELSE IF startswith(t, DQ) /\ endswith(t, DQ)
       THEN ParseOk(Parsed("Value", <<>>, Interior(t), <<>>, <<>>))
       ELSE IF open_paren > 0 /\ endswith(t, ")")
       THEN IF name = kwF THEN ParseQuoted("FuzzyValue", args)
            ELSE IF name = kwASK THEN ParseQuoted("Ask", args)
            ELSE IF name = kwQUERY_FILL THEN ParseQuoted("QueryFill", args)
            ELSE IF name = kwQUERY_USER THEN ParseQuoted("QueryUser", args)
            ELSE IF name = kwSAME_AS_PREVIOUS_INTENT
            THEN ParseOk(Parsed("SameAsPreviousIntent", <<>>, <<>>, <<>>, <<>>))
            ELSE IF name = kwPROPAGATE_SLOT
            THEN IF slots.ok
                 THEN ParseOk(Parsed("PropagateSlots", <<>>, <<>>, slots.node, <<>>))
                 ELSE slots
            ELSE IF name = kwABORT_WITH_NEW_INTENTS
            THEN IF ~new_dsl.ok THEN new_dsl
                 ELSE IF ~IsInstance(new_dsl.node, "ListElement") THEN ParseError("TypeError")
                 ELSE ParseOk(Parsed("AbortWithNewDsl", <<>>, <<>>, <<>>, new_dsl.node))
            ELSE IF name = kwABORT
            THEN ParseOk(Parsed("Abort", <<>>, <<>>, <<>>, <<>>))
            ELSE IF intent.ok /\ wrap_intent_as_value
            THEN ParseOk(Parsed("ReturnValue", <<>>, <<>>, <<intent.node>>, <<>>))
            ELSE intent
       ELSE ParseOk(Parsed("Value", <<>>, t, <<>>, <<>>))

RECURSIVE Equal(_, _)
\* a == b, a being the left operand: Intent.__eq__ and Slot.__eq__ want the same class,
\* the same name and equal items; ListElement and PropagateSlots inherit
\* DslContainerBase.__eq__, which compares the items with those of any container; the
\* other classes have the __eq__ of their dataclass, which compares the fields of two
\* objects of one class.  A comparison both operands decline is False.
Equal(a, b) ==
    LET items == Len(a.ch) = Len(b.ch) /\ \A i \in 1..Len(a.ch) : Equal(a.ch[i], b.ch[i])
    IN IF a.k \in {"Intent", "Slot"} THEN b.k = a.k /\ a.name = b.name /\ items
       ELSE IF a.k \in ContainerKinds THEN b.k \in ContainerKinds /\ items
       ELSE /\ b.k = a.k
            /\ a.name = b.name
            /\ a.val = b.val
            /\ items
            /\ IF a.k = "AbortWithNewDsl" THEN Equal(a.aux, b.aux) ELSE a.aux = b.aux

\* the rendering of a parsed tree, kept with the tree
Rendered(parsed) ==
    [parsed |-> parsed,
     rendered |-> IF parsed.ok THEN to_dsl_representation(parsed.node)
                  ELSE TextError("not parsed")]

\* the tree parsed from a rendering, kept with the rendering and the first tree, and
\* whether it equals the first tree
Reparsed(r) ==
    LET again == IF r.rendered.ok
                 THEN parse_dsl_element(r.rendered.s, FALSE, "ListValue", "DSLValueBase")
                 ELSE ParseError("not rendered")
    IN [parsed |-> r.parsed, rendered |-> r.rendered, reparsed |-> again,
        equal |-> again.ok /\ Equal(again.node, r.parsed.node)]

\* parse, render, parse again, compare
RoundTrip(text) ==
    Reparsed(Rendered(parse_dsl_element(text, FALSE, "ListValue", "DSLValueBase")))

\* how deep the DSL texts parsed are nested
MaxNest == 1

InDQ(s) == <<DQ>> \o s \o <<DQ>>

\* the literals, fuzzy values, placeholders and empty calls
AtomTexts ==
    {<<"1">>, <<"0", "7">>, <<"1", ".", "5", "0">>, <<"-", "2">>, <<"a">>,
     InDQ(<<"a">>), <<SQ, "a", SQ>>, InDQ(<<"7">>), InDQ(<<"a", ",", "b">>),
     <<SQ, "a", DQ, "b", SQ>>,
     Call(kwF, InDQ(<<"a">>)), Call(kwF, <<SQ, "a", SQ>>),
     Call(kwASK, InDQ(<<"q">>)), Call(kwASK, InDQ(<<"q", "\\", DQ>>)),
     Call(kwQUERY_FILL, InDQ(<<"q">>)), Call(kwQUERY_USER, InDQ(<<"q">>)),
     Call(kwQUERY_GATHER, InDQ(<<"f">>) \o <<",", " ">> \o InDQ(<<"q">>)),
     Call(kwSAME_AS_PREVIOUS_INTENT, <<>>), Call(kwABORT, <<>>), Call(<<"f">>, <<>>)}

\* the text e inside a list, an intent, propagated slots or an abort with new intents
WrapText(w, e) ==
    CASE w = 1 -> <<"[">> \o e \o <<"]">>
      [] w = 2 -> <<"[">> \o e \o <<",", " ", "1", "]">>
      [] w = 3 -> Call(<<"f">>, <<"x", "=">> \o e)
      [] w = 4 -> Call(<<"f">>, <<"x", "=", "1", ",", " ", "y", "=">> \o e)
      [] w = 5 -> Call(kwPROPAGATE_SLOT, <<"x", "=">> \o e)
      [] OTHER -> Call(kwABORT_WITH_NEW_INTENTS, <<"[">> \o e \o <<"]">>)

WrapTexts(S) == {WrapText(w, e) : w \in 1..6, e \in S}

RECURSIVE TextsOfNest(_)
TextsOfNest(d) == IF d = 0 THEN AtomTexts ELSE AtomTexts \cup WrapTexts(TextsOfNest(d - 1))

PureInputs ==
    {[f |-> "is_resolved", arg |-> t] : t \in TreesOfDepth(MaxDepth)}
    \cup {[f |-> "split_top_level_commas", arg |-> str] : str \in StringsUpTo(MaxLen)}
    \cup {[f |-> "round_trip", arg |-> text] : text \in TextsOfNest(MaxNest)}

PureInit ==
    /\ pin \in PureInputs
    /\ pout = NoResult
    /\ rpc = "none"
    /\ rs = NewResolver(LLMRuntimeContext, ListElement(1, <<>>), 2)
    /\ epc = "none"
    /\ ev = NewEvaluator(<<>>, 0)
    /\ trace = <<>>
    /\ modes = [t \in ToolNames |-> "ok"]
    /\ host = [used |-> 0, rounds |-> 0, retries |-> 0, inserts |-> 0, raised |-> ""]
    /\ hist = NoHist
    /\ aev = NoAsyncEvaluator

\* node.is_resolved()
ApplyIsResolved ==
    /\ pin.f = "is_resolved"
    /\ ~pout.done
    /\ pout' = [done |-> TRUE, v |-> is_resolved(pin.arg)]
    /\ UNCHANGED <<rpc, rs, epc, ev, trace, modes, host, hist, pin, aev>>

\* split_top_level_commas(args_str)
ApplySplit ==
    /\ pin.f = "split_top_level_commas"
    /\ ~pout.done
    /\ pout' = [done |-> TRUE, v |-> split_top_level_commas(pin.arg)]
    /\ UNCHANGED <<rpc, rs, epc, ev, trace, modes, host, hist, pin, aev>>

\* parse_dsl_element(text), to_dsl_representation() of the result, parse_dsl_element again
ApplyRoundTrip ==
    /\ pin.f = "round_trip"
    /\ ~pout.done
    /\ pout' = [done |-> TRUE, v |-> RoundTrip(pin.arg)]
    /\ UNCHANGED <<rpc, rs, epc, ev, trace, modes, host, hist, pin, aev>>

PureNext ==
    \/ ApplyIsResolved
    \/ ApplySplit
    \/ ApplyRoundTrip

PureSpec == PureInit /\ [][PureNext]_vars

(***************************************************************************)
(* Properties.                                                             *)
(***************************************************************************)
SeqToSet(q) == {q[i] : i \in 1..Len(q)}
Names(slots) == [i \in 1..Len(slots) |-> slots[i].name]
Ids(tr) == [i \in 1..Len(tr) |-> tr[i].id]
IsPrefix(a, b) == Len(a) <= Len(b) /\ SubSeq(b, 1, Len(a)) = a

RECURSIVE Subtrees(_)
Subtrees(n) == {n} \cup UNION {Subtrees(n.ch[i]) : i \in 1..Len(n.ch)}

\* C1: whenever a step of the Resolver returns UNCHANGED, the root tree's is_resolved()
\* is true: no Ask, QueryFill, QueryUser, QueryGather, Abort, AbortWithNewDsl or
\* IntentRuntimeErrorResolver remains in the tree.
C1_ResolvedAfterStep == (rpc = "done") => is_resolved(rs.tree)

\* C2: a second Evaluator run on a tree on which a first run returned SUCCESS returns
\* SUCCESS with the same value and invokes no tool (no exception leaves it either).
C2_NoReExecution ==
    hist.reeval =>
        /\ Len(trace) = hist.startLen
        /\ epc # "escaped"
        /\ epc = "done" => /\ ev.out.status = "SUCCESS"
                           /\ ev.out.value = hist.prev.value

\* a second run has returned on a tree whose first run invoked tools
C2_Witness ==
    /\ hist.reeval
    /\ epc = "done"
    /\ hist.startLen > 0
    /\ \E m \in Subtrees(ev.tree) : m.k = "IntentEvaluatedSuccess"

\* C3: over the host recovery loop (evaluate, ABORTED_RECOVERABLE, new Resolver driven to
\* UNCHANGED, evaluate again) no intent whose tool returned successfully is invoked a
\* second time, be it an element of a list or the value of a slot of another intent.
C3_InvokedOnce ==
    \A i, j \in 1..Len(trace) : (i < j /\ trace[i].ok) => trace[j].id # trace[i].id

\* the second evaluation of a recovery loop succeeded after invoking a tool, and the first
\* one had a list element and a nested intent whose tools returned
C3_Witness ==
    /\ epc = "done"
    /\ ev.out.status = "SUCCESS"
    /\ host.rounds > 0
    /\ \E j \in 1..Len(trace) : trace[j].run > 1
    /\ \E i \in 1..Len(trace) :
          /\ trace[i].run = 1 /\ trace[i].ok
          /\ \E m \in Subtrees(ev.tree) :
                m.k = "IntentEvaluatedSuccess" /\ m.ch[1].id = trace[i].id
    /\ \E i \in 1..Len(trace) :
          /\ trace[i].run = 1 /\ trace[i].ok
          /\ \A m \in Subtrees(ev.tree) :
                m.k = "IntentEvaluatedSuccess" => m.ch[1].id # trace[i].id

\* C4: when evaluate() returns ABORTED_RECOVERABLE it carries the recoverable error, and the
\* tree holds, at the position of the failing Intent, an IntentRuntimeErrorResolver that
\* wraps that intent and carries the error message, whatever the root is.
C4_ErrorResolverInstalled ==
    (epc = "done" /\ ev.out.status = "ABORTED_RECOVERABLE") =>
        LET f == ev.failed[1]
            n == NodeAt(ev.tree, f.path)
        IN /\ ev.out.error = "ApiErrorAbortAndResolve"
           /\ n.k = "IntentRuntimeErrorResolver"
           /\ n.ch[1].id = f.id
           /\ n.name = "tool failed"

\* C5: an error other than the recoverable kind raised while an Intent is evaluated does
\* not leave evaluate(): it returns ABORTED_UNRECOVERABLE carrying the error, and the
\* failing Intent is still at its place in the tree.
C5_UnrecoverableReturned ==
    (Len(ev.failed) > 0 /\ ev.out.status # "ABORTED_RECOVERABLE") =>
        /\ epc # "escaped"
        /\ ev.out.status = "ABORTED_UNRECOVERABLE"
        /\ ev.out.error # ""
        /\ NodeAt(ev.tree, ev.failed[1].path).id = ev.failed[1].id

\* C6: after an abort raised below an Intent that is an element of a list, that Intent is
\* no longer in the list: a plain abort removes it, an abort with replacement puts the
\* replacement at its position; the other elements are unchanged and keep their order.
C6_AbortRemovesIntent ==
    \A i \in 2..Len(rs.alog.kinds) :
        (rs.alog.kinds[i] = "Intent" /\ rs.alog.kinds[i - 1] = "ListElement") =>
            LET before == rs.alog.kidsBefore[i - 1]
                after == rs.alog.kidsAfter[i - 1]
                p == rs.alog.idx[i - 1]
            IN IF rs.alog.replaced
               THEN after = [before EXCEPT ![p] = rs.alog.newId]
               ELSE after = RemoveIdx(before, p)

RECURSIVE Flat(_)
\* the slots of the queued PropagateSlots, in queue order
Flat(queue) == IF Len(queue) = 0 THEN <<>> ELSE Head(queue).ch \o Flat(Tail(queue))

\* C7: after an intent's re-entry hook has consumed the pending PropagateSlots, the intent
\* has exactly one slot per propagated name, holding the propagated value (the last one
\* queued); slots that had the name are overwritten in place, new names are appended at
\* the end in order, the other slots are unchanged, and the queue is empty.
C7_PropagateSlotsMerged ==
    rs.mlog.n > 0 =>
        LET before == rs.mlog.before
            after == rs.mlog.after
            prop == Flat(rs.mlog.queue)
            pnames == SeqToSet(Names(prop))
            lastOf(nm) == CHOOSE i \in 1..Len(prop) :
                              /\ prop[i].name = nm
                              /\ \A j \in (i + 1)..Len(prop) : prop[j].name # nm
        IN /\ rs.mlog.pendAfter = <<>>
           /\ Len(after) >= Len(before)
           /\ \A nm \in pnames : \E i \in 1..Len(after) :
                  /\ after[i].name = nm
                  /\ after[i].ch[1] = prop[lastOf(nm)].ch[1]
                  /\ \A j \in 1..Len(after) : after[j].name = nm => j = i
           /\ \A i \in 1..Len(before) :
                  /\ after[i].name = before[i].name
                  /\ after[i].id = before[i].id
                  /\ before[i].name \notin pnames => after[i] = before[i]
           /\ \A i \in (Len(before) + 1)..Len(after) :
                  /\ after[i].name \in pnames
                  /\ after[i].name \notin SeqToSet(Names(before))
           /\ \A i, j \in (Len(before) + 1)..Len(after) :
                  i < j => \E a \in 1..Len(prop) :
                              /\ prop[a].name = after[i].name
                              /\ \A c \in 1..a : prop[c].name # after[j].name

\* a merge of two queued PropagateSlots that appended a slot, overwrote it with the later
\* value, and left another slot alone
C7_Witness ==
    /\ rs.mlog.n > 0
    /\ Len(rs.mlog.queue) = 2
    /\ Len(rs.mlog.after) = Len(rs.mlog.before) + 1
    /\ rs.mlog.after[Len(rs.mlog.after)].ch[1] = rs.mlog.queue[2].ch[1].ch[1]
    /\ rs.mlog.after[1] = rs.mlog.before[1]

\* a step returned a request, or a resumed step has run a hook
ParkedOrResumed ==
    /\ rpc = "paused" =>
          /\ rs.cs = hist.snap.cs
          /\ rs.tree = hist.snap.tree
          /\ rs.ss = hist.snap.ss
          /\ NodeAt(rs.tree, Top(rs.cs).path).id = rs.req.requester
    /\ (hist.resumed /\ Len(rs.hooks) > hist.resumeAt) =>
          /\ rs.hooks[hist.resumeAt + 1].h = "do"
          /\ rs.hooks[hist.resumeAt + 1].id = hist.resumeReq

\* the hooks a transition of a resolver runs are added to those it ran before, and each
\* of them is the first pre/do/post of its node, or the do_resolution of the requester
\* that follows the one which returned the request
HooksRunOnce ==
    rs'.hooks # <<>> =>
        /\ IsPrefix(rs.hooks, rs'.hooks)
        /\ \A j \in (Len(rs.hooks) + 1)..Len(rs'.hooks) :
              LET new == rs'.hooks[j]
              IN new.h \in {"pre", "do", "post"} =>
                    \A i \in 1..(j - 1) :
                        (rs'.hooks[i].id = new.id /\ rs'.hooks[i].h = new.h) =>
                            /\ new.h = "do"
                            /\ rs'.hooks[i].res = "INTERACTION_REQUESTED"
                            /\ j = i + 1

\* C8: when a step returns INTERACTION_REQUESTED the call stack, the tree and the
\* context's intent/slot state are those do_resolution was called with on the requester;
\* the next step starts with do_resolution on that node; and no pre_resolution,
\* do_resolution or post_resolution runs twice on a node, except that do_resolution of
\* the requester runs again first thing on resume.
C8_ResumeWhereParked == []ParkedOrResumed /\ [][HooksRunOnce]_vars

\* a resolver that was resumed with an answer, went on, and is parked again on another node
C8_Witness ==
    /\ rpc = "paused"
    /\ hist.resumed
    /\ Len(rs.hooks) > hist.resumeAt + 1
    /\ rs.req.requester # hist.resumeReq
    /\ Len(rs.cs) > 2

\* C9: a new Resolver on a tree holding an IntentRuntimeErrorResolver first returns
\* INTERACTION_REQUESTED, requested by that node with the error message; the
\* IntentEvaluatedSuccess nodes of the tree are untouched by the repair; and when the
\* step returns UNCHANGED the repaired tree is resolved.
C9_ErrorResolverAsksFirst ==
    host.rounds > 0 =>
        /\ (~hist.resumed /\ rpc \in {"paused", "done", "raised"}) =>
              /\ rpc = "paused"
              /\ LET n == NodeAt(rs.tree, Top(rs.cs).path)
                 IN /\ n.k = "IntentRuntimeErrorResolver"
                    /\ rs.req.requester = n.id
                    /\ rs.req.message = n.name
        /\ (rpc # "none" /\ epc = "none") =>
              \A m \in Subtrees(ev.tree) :
                  m.k = "IntentEvaluatedSuccess" => m \in Subtrees(rs.tree)
        /\ rpc = "done" => is_resolved(rs.tree)

RECURSIVE PostOrderIds(_)
\* the intents of a subtree, children first and in order, then the node itself
PostOrderIds(n) ==
    LET RECURSIVE walk(_)
        walk(i) == IF i > Len(n.ch) THEN <<>> ELSE PostOrderIds(n.ch[i]) \o walk(i + 1)
    IN walk(1) \o (IF n.k = "Intent" THEN <<n.id>> ELSE <<>>)

\* C10: tools are called left to right, depth first: evaluating an Intent invokes the
\* tools of the intents nested in its slots, in slot order, before its own (a failure
\* cuts the sequence short), and a first evaluation that succeeds has invoked the intents
\* of the list in list order; with tools that return, the evaluation of
\* [add(a=1, b=2), multiply(a=4, b=add(a=2, b=3))] invokes add(2, 3) and then
\* multiply(4, 5).
C10_DepthFirstOrder ==
    /\ hist.lastEval.node # <<>> =>
          /\ IsPrefix(Ids(hist.lastEval.tr), PostOrderIds(hist.lastEval.node))
          /\ hist.lastEval.ok => Ids(hist.lastEval.tr) = PostOrderIds(hist.lastEval.node)
    /\ (epc = "done" /\ ev.out.status = "SUCCESS" /\ host.rounds = 0) =>
          Ids(trace) = PostOrderIds(ev.tree)
    /\ (epc \in {"done", "escaped"} /\ hist.evalRoot = TreeNested(1)
          /\ \A t \in ToolNames : modes[t] = "ok") =>
          \E i \in 1..(Len(trace) - 1) :
              /\ trace[i].name = "add" /\ trace[i].args = [a |-> 2, b |-> 3] /\ trace[i].ok
              /\ trace[i + 1].name = "multiply" /\ trace[i + 1].args = [a |-> 4, b |-> 5]
              /\ trace[i + 1].ok

\* C11: evaluating a resolved root list that holds a single intent whose tool returns
\* invokes that tool exactly once and returns SUCCESS with the value the intent returned.
C11_SingleIntentValue ==
    (/\ epc = "done"
     /\ hist.evals = 1 /\ ~hist.reeval
     /\ ev.tree.k = "ListElement"
     /\ Len(ev.tree.ch) = 1
     /\ ev.tree.ch[1].k = "IntentEvaluatedSuccess") =>
        LET done == ev.tree.ch[1]
        IN /\ ev.out.status = "SUCCESS"
           /\ Cardinality({i \in 1..Len(trace) : trace[i].id = done.ch[1].id}) = 1
           /\ ev.out.value = done.val

\* the evaluation that is running or has ended started on a tree holding a placeholder
EvaluatingUnresolved ==
    /\ epc \in {"running", "done", "escaped"}
    /\ hist.evalRoot # <<>>
    /\ HasPlaceholder(hist.evalRoot)

\* the tools invoked by the current evaluation belong to intents that hold no placeholder
PlaceholderToolsNotInvoked ==
    \A i \in 1..Len(trace) :
        trace[i].run = hist.evals =>
            \A m \in Subtrees(hist.evalRoot) : m.id = trace[i].id => ~HasPlaceholder(m)

ReachesSlot(n, i) ==
    /\ n.name \in ToolNames
    /\ \A j \in 1..i : n.ch[j].name \in ToolArgs
    /\ \A j \in 1..(i - 1) :
          LET r == eval(n.ch[j].ch[1], modes)
          IN r.ok /\ r.shape = "scalar" /\ r.value \in Nat

RECURSIVE MeetsPlaceholder(_, _, _)
\* eval of c, called with value_type (typed: the call of ListElement.eval) or without it
\* (the call of Intent.eval), gets to an unresolved node before anything else fails, and
\* what is raised there is exc: the RuntimeError "Unresolved DSL node" of the node's eval,
\* or the TypeError of a call with value_type to an eval that has no such parameter
MeetsPlaceholder(c, typed, exc) ==
    IF c.k \in UnresolvedKinds
    THEN exc = (IF typed /\ c.k \notin TypedEvalKinds THEN "TypeError" ELSE "RuntimeError")
    ELSE IF typed /\ c.k \notin TypedEvalKinds THEN FALSE
    ELSE CASE c.k = "Intent" ->
                \E i \in 1..Len(c.ch) :
                    ReachesSlot(c, i) /\ MeetsPlaceholder(c.ch[i].ch[1], FALSE, exc)
           [] c.k = "ListElement" ->
                \E e \in 1..Len(c.ch) :
                    /\ \A d \in 1..(e - 1) :
                          c.ch[d].k \in TypedEvalKinds /\ eval(c.ch[d], modes).ok
                    /\ MeetsPlaceholder(c.ch[e], TRUE, exc)
           [] OTHER -> FALSE

\* the node of the tree the evaluation started on that the frame on top of the evaluator's
\* stack refers to
EvaluatorStandsAt == NodeAt(hist.evalRoot, Top(ev.cs).path)

C13_HostSeesTwoOutcomes ==
    /\ rs.ret \in {"", "UNCHANGED", "INTERACTION_REQUESTED"}
    /\ rpc = "done" => rs.ret = "UNCHANGED"
    /\ rpc = "paused" =>
          /\ rs.ret = "INTERACTION_REQUESTED"
          /\ rs.hooks[Len(rs.hooks)].res = "INTERACTION_REQUESTED"
    /\ Len(rs.hooks) > 0 => rs.hooks[Len(rs.hooks)].res \notin {"NEW_DSL_NODES", "ABORT"}

\* a step returned UNCHANGED after the machine had consumed the new nodes of one node and
\* the abort they held
C13_Witness ==
    /\ rpc = "done"
    /\ rs.ret = "UNCHANGED"
    /\ rs.alog.n > 0
    /\ \E i \in 1..Len(rs.hooks) : rs.hooks[i].res = "NEW_DSL_NODES"

\* variants whose do_resolution asks the user
InteractiveKinds == {"Ask", "QueryUser", "IntentRuntimeErrorResolver"}

\* the hooks of the running step in which a node that asks the user consumed an answer
AnswersTaken ==
    {i \in (IF hist.resumed THEN hist.resumeAt + 1 ELSE 1)..Len(rs.hooks) :
        /\ rs.hooks[i].h = "do"
        /\ rs.hooks[i].k \in InteractiveKinds
        /\ rs.hooks[i].res = "NEW_DSL_NODES"}

\* C14: an Ask, QueryUser or IntentRuntimeErrorResolver reached with no interaction, or
\* with the interaction of another requester, returns INTERACTION_REQUESTED naming itself,
\* its question and the current slot, and leaves the answer as it was; within one step
\* only the requester consumes the answer, so one answer resolves one placeholder at most.
C14_AnswerOnlyForRequester ==
    /\ rpc = "paused" =>
          LET n == NodeAt(rs.tree, Top(rs.cs).path)
          IN /\ n.k \in InteractiveKinds
             /\ rs.ia.none \/ rs.ia.req # n.id
             /\ rs.req.requester = n.id
             /\ n.k # "QueryUser" => rs.req.message = n.name
             /\ rs.req.slot = Top(rs.ss).slot
             /\ rs.ia = hist.snap.ia
    /\ Cardinality(AnswersTaken) <= 1
    /\ \A i \in AnswersTaken : hist.resumed /\ rs.hooks[i].id = hist.resumeReq

\* a step was given the answer to one Ask, which consumed it, and is parked on a second Ask
\* that was reached with that interaction and asks for its own slot
C14_Witness ==
    /\ rpc = "paused"
    /\ hist.resumed
    /\ Cardinality(AnswersTaken) = 1
    /\ rs.ia.consumed
    /\ rs.req.requester # rs.ia.req
    /\ rs.req.slot # NoPath

\* errors of the resolution kind: a QUERY_FILL oracle that aborts, an oracle call that fails
ResolutionErrors == {"RuntimeError: QUERY_FILL aborted", "OracleError"}

\* C15: when a step ends with a resolution error (a QUERY_FILL oracle returned a non-empty
\* abort field, or an oracle call failed inside do_resolution) the tree is the tree the
\* step started with: no mutation occurred.
C15_ErrorLeavesTree ==
    (rpc = "raised" /\ rs.err \in ResolutionErrors) => rs.tree = hist.stepTree

\* C16: the Resolver shares no node with the host: while an Evaluator runs on a tree the
\* resolver returned, the resolver's tree does not change, and while a step of the
\* Resolver runs, the tree returned earlier and the tree its constructor was given do
\* not change.
C16_NoSharedNodes ==
    [][/\ epc = "running" => rs'.tree = rs.tree
       /\ rpc = "running" => ev'.tree = ev.tree]_vars

\* an Evaluator put an error resolver in the tree it was given, and the Resolver built on
\* that tree has repaired its own tree: the two trees differ
C16_Witness ==
    /\ host.rounds > 0
    /\ rpc = "done"
    /\ \E m \in Subtrees(ev.tree) : m.k = "IntentRuntimeErrorResolver"
    /\ \E m \in Subtrees(ev.tree) : m.k = "IntentEvaluatedSuccess"
    /\ is_resolved(rs.tree)

\* C17: for every tree built from the node variants, is_resolved() is false exactly when
\* the subtree holds an Ask, QueryFill, QueryUser, QueryGather, Abort, AbortWithNewDsl or
\* IntentRuntimeErrorResolver, at any depth: below a Slot, a ListValue, a list, a
\* PropagateSlots, or in the intent wrapped by a ReturnValue.
C17_ResolvedIffNoPlaceholder ==
    (pin.f = "is_resolved" /\ pout.done) => (pout.v = FALSE <=> HasPlaceholder(pin.arg))


RECURSIVE LexState(_, _)
\* the lexical position after the first k characters of str: the open quote, whether the
\* next character is escaped, the open groups, and whether a closing bracket met no
\* opening bracket of its kind
LexState(str, k) ==
    IF k = 0 THEN [q |-> "", esc |-> FALSE, open |-> <<>>, bad |-> FALSE]
    ELSE LET p == LexState(str, k - 1)
             c == str[k]
         IN IF p.q # ""
            THEN IF p.esc THEN [p EXCEPT !.esc = FALSE]
                 ELSE IF c = "\\" THEN [p EXCEPT !.esc = TRUE]
                 ELSE IF c = p.q THEN [p EXCEPT !.q = ""]
                 ELSE p
            ELSE IF c \in {"'", "\""} THEN [p EXCEPT !.q = c]
            ELSE IF c \in {"(", "[", "{"} THEN [p EXCEPT !.open = Append(@, c)]
            ELSE IF c \in {")", "]", "}"}
                 THEN IF Len(p.open) > 0 /\ Closing(p.open[Len(p.open)]) = c
                      THEN [p EXCEPT !.open = SubSeq(@, 1, Len(@) - 1)]
                      ELSE [p EXCEPT !.bad = TRUE]
            ELSE p

\* the positions of the commas that stand outside every group and every string
Separators(str) ==
    {i \in 1..Len(str) : /\ str[i] = ","
                         /\ LexState(str, i - 1).q = ""
                         /\ LexState(str, i - 1).open = <<>>}

RECURSIVE Blanks(_)
Blanks(s) == IF s = <<>> THEN TRUE ELSE s[1] = " " /\ Blanks(Tail(s))

RECURSIVE Trimmed(_)
\* s without its leading and trailing blanks
Trimmed(s) ==
    IF s = <<>> THEN <<>>
    ELSE IF s[1] = " " THEN Trimmed(Tail(s))
    ELSE IF s[Len(s)] = " " THEN Trimmed(SubSeq(s, 1, Len(s) - 1))
    ELSE s

\* the k-th piece of str between its separators
Piece(str, k) ==
    LET seps == Separators(str)
        cut(j) == IF j = 0 THEN 0
                  ELSE IF j > Cardinality(seps) THEN Len(str) + 1
                  ELSE CHOOSE i \in seps : Cardinality({x \in seps : x <= i}) = j
    IN SubSeq(str, cut(k - 1) + 1, cut(k) - 1)

\* the top-level arguments of str, in order, stripped
TopLevelArguments(str) ==
    IF Separators(str) = {} /\ Blanks(str) THEN <<>>
    ELSE [k \in 1..(Cardinality(Separators(str)) + 1) |-> Trimmed(Piece(str, k))]

\* an input split_top_level_commas has to reject
MustFail(str) ==
    LET n == Cardinality(Separators(str))
    IN \/ \E k \in 1..Len(str) : LexState(str, k).bad
       \/ LexState(str, Len(str)).q # ""
       \/ \E k \in 2..n : Blanks(Piece(str, k))
       \/ n > 0 /\ Blanks(Piece(str, n + 1))

\* C19: split_top_level_commas returns the top-level arguments in order and stripped, a
\* comma being a separator only outside every group and every quoted string (a backslash
\* inside a string escaping the next character), and it fails on every input with an
\* unmatched or mismatched closing bracket, an unterminated string, an empty argument
\* between two separators or a trailing separator.
C19_SplitTopLevel ==
    (pin.f = "split_top_level_commas" /\ pout.done) =>
        /\ MustFail(pin.arg) => ~pout.v.ok
        /\ pout.v.ok => pout.v.args = TopLevelArguments(pin.arg)

\* a string holding a comma inside a group or a quoted string is split
C19_Witness ==
    /\ pin.f = "split_top_level_commas"
    /\ pout.done
    /\ pout.v.ok
    /\ Len(pout.v.args) > 0
    /\ \E i \in 1..Len(pin.arg) : pin.arg[i] = "," /\ i \notin Separators(pin.arg)

\* C18: for every tree the parser produces from a DSL string, parsing the rendering of the
\* tree yields a tree equal to it (parse(render(t)) == t, by the __eq__ of the nodes).
C18_RoundTrip ==
    (pin.f = "round_trip" /\ pout.done /\ pout.v.parsed.ok) =>
        /\ pout.v.rendered.ok
        /\ pout.v.reparsed.ok
        /\ pout.v.equal

\* the hook calls that are the pre_resolution of the node id
PreVisits(id) == {i \in 1..Len(rs.hooks) : rs.hooks[i].h = "pre" /\ rs.hooks[i].id = id}

\* C20: in a resolution run every child that remains in the tree is pushed and given
\* pre_resolution exactly once, the children of a node in their declared order: no node of
\* the tree is visited twice, and when the step returns UNCHANGED none has been skipped,
\* the siblings after a child removed by an abort unwind and the slots appended by
\* PROPAGATE_SLOT merging included.
C20_EveryChildVisitedOnce ==
    /\ \A n \in Subtrees(rs.tree) : Cardinality(PreVisits(n.id)) <= 1
    /\ rpc = "done" =>
          \A m \in Subtrees(rs.tree) : \A a \in 1..Len(m.ch) :
              /\ Cardinality(PreVisits(m.ch[a].id)) = 1
              /\ \A b \in (a + 1)..Len(m.ch) :
                    \A i \in PreVisits(m.ch[a].id), j \in PreVisits(m.ch[b].id) : i < j

\* the hook call h on the node id is among the calls H
Did(H, h, id) == \E i \in 1..Len(H) : H[i].h = h /\ H[i].id = id

\* the node id was given pre_resolution and, later, post_resolution
Completed(H, id) ==
    \E i, j \in 1..Len(H) :
        /\ i < j
        /\ H[i].h = "pre" /\ H[i].id = id
        /\ H[j].h = "post" /\ H[j].id = id

\* the hook calls made by the step from rs to rs', each as <<hook, node id>>
NewHooks ==
    [i \in 1..(Len(rs'.hooks) - Len(rs.hooks)) |->
        <<rs'.hooks[Len(rs.hooks) + i].h, rs'.hooks[Len(rs.hooks) + i].id>>]

\* one iteration of the resolver's loop that ends neither in an error nor in an abort unwind
\* calls its hooks in the documented order
HookOrderStep ==
    (rpc = "running" /\ Len(rs.cs) > 0 /\ rs' # rs /\ rs'.err = ""
        /\ rs'.alog.n = rs.alog.n) =>
    LET cur == Top(rs.cs)
        n == NodeAt(rs.tree, cur.path)
        root == Len(rs.cs) = 1
        processed == is_leaf(n) \/ cur.idx >= Len(n.ch)
        reentry == IF root THEN <<>>
                   ELSE << <<"reentry", NodeAt(rs.tree, rs.cs[Len(rs.cs) - 1].path).id>> >>
    IN /\ ~root => Did(rs.hooks, "pre", n.id)
       /\ ~Did(rs.hooks, "post", n.id)
       /\ IF ~processed
          THEN /\ ~Did(rs.hooks, "do", n.id)
               /\ NewHooks = << <<"pre", n.ch[cur.idx + 1].id>> >>
          ELSE /\ ~is_leaf(n) => \A c \in 1..Len(n.ch) : Completed(rs.hooks, n.ch[c].id)
               /\ IF rpc' = "paused" THEN NewHooks = << <<"do", n.id>> >>
                  ELSE IF Len(rs'.cs) < Len(rs.cs)
                       THEN NewHooks = << <<"do", n.id>>, <<"post", n.id>> >> \o reentry
                       ELSE NewHooks = << <<"do", n.id>>, <<"post", n.id>>,
                                          <<"pre", NodeAt(rs'.tree, cur.path).id>> >> \o reentry

\* C21: for every node the resolver's hooks run in the order pre_resolution, the complete
\* processing of all its children (each with its own pre, do and post), do_resolution and,
\* unless do_resolution paused, post_resolution; the parent's on_reentry_resolution is
\* called when a child finishes, before the next sibling's pre_resolution.
C21_HookOrder == [][HookOrderStep]_vars

\* identities of the nodes whose frames are on the resolver's call stack
OnStackIds == {StackNodes(rs)[i].id : i \in 1..Len(rs.cs)}

\* C22: every node that was given pre_resolution is given post_resolution before its frame
\* leaves the call stack (a paused node keeps its frame): a node whose frame is gone,
\* whether popped after its own processing, replaced, or popped by an abort unwind, has had
\* its post_resolution.
C22_PostBeforeLeaving ==
    \A i \in 1..Len(rs.hooks) :
        rs.hooks[i].h = "pre" =>
            \/ rs.hooks[i].id \in OnStackIds
            \/ Did(rs.hooks, "post", rs.hooks[i].id)

\* the node whose do_resolution was called last, as it was before the call
LastProcessed == NodeAt(hist.snap.tree, Top(hist.snap.cs).path)

\* C23: an Abort or AbortWithNewDsl reached by the walk as a node of the tree returns ABORT
\* from do_resolution; the Abort is then removed from its enclosing list and the
\* AbortWithNewDsl replaced by its new_dsl, and neither is in the tree when the step returns
\* UNCHANGED.
C23_AbortNodesLeaveTree ==
    /\ (hist.snap # NoSnap /\ rs.err = "" /\ LastProcessed.k \in AbortKinds) =>
          /\ \E i \in 1..Len(rs.hooks) :
                /\ rs.hooks[i].h = "do"
                /\ rs.hooks[i].id = LastProcessed.id
                /\ rs.hooks[i].res = "ABORT"
          /\ LastProcessed.id \notin NodeIds(rs.tree)
          /\ LastProcessed.k = "AbortWithNewDsl" =>
                /\ rs.alog.replaced
                /\ rs.alog.newId = LastProcessed.aux[1].id
                /\ LastProcessed.aux[1].id \in NodeIds(rs.tree)
    /\ rpc = "done" => \A n \in Subtrees(rs.tree) : n.k \notin AbortKinds

\* the nodes of an outcome that are installed in the tree (PropagateSlots are queued)
CoreNodes(nodes) == SelectSeq(nodes, LAMBDA e : e.k # "PropagateSlots")

\* an iteration whose do_resolution returned NEW_DSL_NODES and that did not abort leaves the
\* replacement in the place of the processed node, the rest of the tree as it was, and the
\* frame {replacement, 0} on top of the call stack
SubstitutionStep ==
    \A ans \in OracleChoices(rs) :
        LET cur == Top(rs.cs)
            d == do_resolution(rs, cur.path, ans)
            core == CoreNodes(d.out.nodes)
            r == NodeAt(rs'.tree, cur.path)
        IN (/\ rs' = resolve_iteration(rs, ans)
            /\ rs' # rs
            /\ rs'.err = ""
            /\ rs'.alog.n = rs.alog.n
            /\ Len(rs'.hooks) > Len(rs.hooks)
            /\ rs'.hooks[Len(rs.hooks) + 1].h = "do"
            /\ rs'.hooks[Len(rs.hooks) + 1].res = "NEW_DSL_NODES") =>
           /\ Len(rs.cs) >= 2
           /\ NodeAt(rs.tree, Pop(cur.path)).k \in {"Slot", "ListElement", "ListValue"}
           /\ IF Len(core) = 1 THEN r = core[1]
              ELSE /\ r.k = "ListElement"
                   /\ r.ch = core
                   /\ r.id \notin AllIds(rs.tree)
                   /\ \A i \in 1..Len(d.out.nodes) : r.id \notin AllIds(d.out.nodes[i])
           /\ rs'.tree = ReplaceAt(rs.tree, cur.path, r)
           /\ rs'.cs = SetTop(rs.cs, Frame(cur.path, 0))

\* C24: after a NEW_DSL_NODES substitution the parent's child at the position of the
\* replaced node is the replacement (the single core node, or a fresh list of the core nodes
\* in order when there are several), every other child and the rest of the tree are
\* unchanged, and the top frame of the call stack is {replacement, 0}.
C24_Substitution ==
    [][(rpc = "running" /\ Len(rs.cs) > 0) => SubstitutionStep]_vars

\* a substitution has just installed a fresh list of several core nodes as the value of a Slot
C24_Witness ==
    /\ rpc = "running"
    /\ Len(rs.cs) >= 2
    /\ hist.snap # NoSnap
    /\ LastProcessed.k = "Ask"
    /\ Top(rs.cs) = Frame(Top(hist.snap.cs).path, 0)
    /\ NodeAt(rs.tree, Top(rs.cs).path).k = "ListElement"
    /\ Len(NodeAt(rs.tree, Top(rs.cs).path).ch) = 2
    /\ NodeAt(rs.tree, Pop(Top(rs.cs).path)).k = "Slot"
    /\ rs.hooks[Len(rs.hooks)].h = "reentry"
    /\ rs.hooks[Len(rs.hooks) - 1].h = "pre"
    /\ rs.hooks[Len(rs.hooks) - 1].id = NodeAt(rs.tree, Top(rs.cs).path).id

\* position in the call stack cs of the innermost frame that holds a ListElement of tree
InnermostList(tree, cs) ==
    LET lists == {i \in 1..Len(cs) : NodeAt(tree, cs[i].path).k = "ListElement"}
    IN IF lists = {} THEN 0 ELSE CHOOSE i \in lists : \A j \in lists : j <= i

\* an iteration that ends in an abort unwind leaves the Q&A history empty, the context
\* without intent, slot and other slots, and the stack cut at the innermost list, with the
\* frame {replacement, 0} above it when the abort carries a replacement
AbortUnwindStep ==
    (rs'.alog.n = rs.alog.n + 1 /\ rs'.err = "") =>
        LET k == InnermostList(rs.tree, rs.cs)
            P == rs.cs[k]
            into == P.path \o <<P.idx>>
        IN /\ k > 0
           /\ rs'.qna = <<>>
           /\ rs'.ss = <<NoneState>>
           /\ Top(rs'.ss).intent = NoPath
           /\ Top(rs'.ss).slot = NoPath
           /\ Top(rs'.ss).other = NoOther
           /\ IF rs'.alog.replaced
              THEN /\ rs'.cs = Append(SubSeq(rs.cs, 1, k), Frame(into, 0))
                   /\ NodeAt(rs'.tree, into).id = rs'.alog.newId
              ELSE /\ rs'.cs = SubSeq(rs.cs, 1, k)
                   /\ NodeAt(rs'.tree, Top(rs'.cs).path).k = "ListElement"

\* C25: immediately after every abort unwind the Q&A history is empty, the context's
\* intent, slot and other slots are cleared, and the top frame of the call stack is the
\* list where the unwind stopped, or the replacement pushed above it.
C25_AbortUnwindClears == [][AbortUnwindStep]_vars

\* an abort with a replacement has just unwound the frames of an Intent and its Slot
C25_Witness ==
    /\ rpc = "running"
    /\ rs.alog.n > 0
    /\ rs.alog.replaced
    /\ hist.snap # NoSnap
    /\ Len(hist.snap.ss) > 1
    /\ Top(hist.snap.ss).slot # NoPath
    /\ Len(hist.snap.cs) > Len(rs.cs)
    /\ rs.qna = <<>>
    /\ rs.ss = <<NoneState>>
    /\ Top(rs.cs).idx = 0
    /\ NodeAt(rs.tree, Top(rs.cs).path).id = rs.alog.newId
    /\ rs.hooks[Len(rs.hooks)].h = "pre"
    /\ rs.hooks[Len(rs.hooks)].id = rs.alog.newId

\* a step() call has returned to the host
StepReturned == rpc \in {"paused", "done"}

\* C26 as stated: within one session the Q&A history and the oracle-call log are
\* append-only: after every step() call what each held before the call is a prefix of what
\* it holds after the call.
C26_AppendOnly ==
    StepReturned =>
        /\ IsPrefix(hist.stepQna, rs.qna)
        /\ IsPrefix(hist.stepLog, rs.log)

\* C26 amended: the oracle-call log is append-only across every step() call; the Q&A
\* history is append-only across every step() call that makes no abort unwind, and is
\* empty after a step() call that made one.
C26_AppendOnlyUnlessAbort ==
    StepReturned =>
        /\ IsPrefix(hist.stepLog, rs.log)
        /\ IF rs.alog.n = hist.stepAborts
           THEN IsPrefix(hist.stepQna, rs.qna)
           ELSE rs.qna = <<>>

\* a step() call that started with a recorded question and answer made an oracle call and
\* an abort unwind
C26_Witness ==
    /\ StepReturned
    /\ rs.alog.n > hist.stepAborts
    /\ Len(hist.stepQna) > 0
    /\ Len(rs.log) > Len(hist.stepLog)
    /\ rs.qna = <<>>

\* the next iteration of the loop calls do_resolution on the node on top of the call stack
DoResolutionCalled ==
    /\ rpc = "running"
    /\ Len(rs.cs) > 0
    /\ \/ is_leaf(NodeAt(rs.tree, Top(rs.cs).path))
       \/ Top(rs.cs).idx >= Len(NodeAt(rs.tree, Top(rs.cs).path).ch)

\* positions of the Intent frames on the call stack
IntentFrames == {i \in 1..Len(rs.cs) : StackNodes(rs)[i].k = "Intent"}

\* position of the innermost Intent frame, 0 if there is none
InnermostIntent ==
    IF IntentFrames = {} THEN 0 ELSE CHOOSE i \in IntentFrames : \A j \in IntentFrames : j <= i

\* C27: whenever do_resolution is called on a node, the context's current intent is the
\* innermost Intent on the call stack (none if there is none), its current slot is the Slot
\* of that intent on the call stack (none if there is none), and the context's state stack
\* has depth 1 + the number of Intent frames on the call stack.
C27_ContextFollowsStack ==
    DoResolutionCalled =>
        /\ Top(rs.ss).intent =
              IF InnermostIntent = 0 THEN NoPath ELSE rs.cs[InnermostIntent].path
        /\ Top(rs.ss).slot =
              IF /\ InnermostIntent > 0
                 /\ Len(rs.cs) > InnermostIntent
                 /\ StackNodes(rs)[InnermostIntent + 1].k = "Slot"
              THEN rs.cs[InnermostIntent + 1].path ELSE NoPath
        /\ Len(rs.ss) = 1 + Cardinality(IntentFrames)

\* evaluate() has returned after its walk emptied the call stack
WalkEmptiedStack == epc = "done" /\ Len(ev.cs) = 0

\* C28: evaluate() returns SUCCESS whenever its walk empties the call stack after every
\* visited Intent evaluated without error, whether the root is a list, a single Intent or
\* an IntentEvaluatedSuccess; the outcome "evaluation terminated unexpectedly" is not
\* returned by a run that started with the root frame on the call stack.
C28_SuccessWhenStackEmpties ==
    WalkEmptiedStack =>
        /\ ev.failed = <<>>
        /\ ev.out.status = "SUCCESS"
        /\ ev.out.error = ""

RECURSIVE ListItems(_)
\* the elements of a list and of the lists nested in it
ListItems(n) ==
    IF n.k = "ListElement"
    THEN {n.ch[i] : i \in 1..Len(n.ch)} \cup UNION {ListItems(n.ch[i]) : i \in 1..Len(n.ch)}
    ELSE {}

\* a step of the evaluator in which the Intent on top of the call stack, an element of a
\* list, evaluated successfully
IntentSucceededStep ==
    /\ epc = "running"
    /\ Len(ev.cs) >= 2
    /\ NodeAt(ev.tree, Top(ev.cs).path).k = "Intent"
    /\ ev' # ev
    /\ hist'.lastEval.ok

\* the wrapper of the evaluated intent takes the intent's place and nothing else changes
WrapperInstalled ==
    LET path == Top(ev.cs).path
        n == NodeAt(ev.tree, path)
        w == NodeAt(ev'.tree, path)
    IN /\ w.k = "IntentEvaluatedSuccess"
       /\ w.ch = <<n>>
       /\ Len(hist'.lastEval.tr) > 0
       /\ w.val = ToolValue(n.name, hist'.lastEval.tr[Len(hist'.lastEval.tr)].args)
       /\ ev'.tree = ReplaceAt(ev.tree, path, w)
       /\ Len(NodeAt(ev'.tree, Pop(path)).ch) = Len(NodeAt(ev.tree, Pop(path)).ch)

\* C29: after an intent evaluates successfully an IntentEvaluatedSuccess holding that
\* intent and the value it returned occupies the intent's position in its parent list, the
\* other children of the parent are unchanged in content and order, and when evaluate()
\* returns SUCCESS no element of the root list or of a nested list is an Intent.
C29_WrapperInPlace ==
    /\ [][IntentSucceededStep => WrapperInstalled]_vars
    /\ [](epc = "done" /\ ev.out.status = "SUCCESS" =>
            \A m \in ListItems(ev.tree) : m.k \in {"IntentEvaluatedSuccess", "ListElement"})

\* a first evaluation returned SUCCESS on a root list whose second element and the element
\* of whose nested list were intents
C29_Witness ==
    /\ epc = "done"
    /\ ev.out.status = "SUCCESS"
    /\ ~hist.reeval
    /\ hist.evals = 1
    /\ Len(ev.tree.ch) = 2
    /\ ev.tree.ch[1].k = "ListElement"
    /\ Len(ev.tree.ch[1].ch) = 1
    /\ ev.tree.ch[1].ch[1].k = "IntentEvaluatedSuccess"
    /\ ev.tree.ch[1].ch[1].ch[1].name = "add"
    /\ ev.tree.ch[1].ch[1].val = 11
    /\ ev.tree.ch[2].k = "IntentEvaluatedSuccess"
    /\ ev.tree.ch[2].ch[1].name = "multiply"
    /\ ev.tree.ch[2].val = 6
    /\ Len(trace) = 2

\* evaluate() has returned an aborted outcome with the failing element's frame on the stack
EvaluationAborted ==
    /\ epc = "done"
    /\ ev.out.status \in {"ABORTED_RECOVERABLE", "ABORTED_UNRECOVERABLE"}
    /\ Len(ev.cs) >= 2

\* ids of the nodes whose tools this run of evaluate() invoked
InvokedInRun == {trace[i].id : i \in {j \in 1..Len(trace) : trace[j].run = hist.evals}}

\* C30: evaluation stops at the first failing intent: when evaluate() returns
\* ABORTED_RECOVERABLE or ABORTED_UNRECOVERABLE because of the k-th element of a list, no
\* tool of a later element has been invoked and the later elements are as they were when
\* the run started, while every element before it that was an Intent is an
\* IntentEvaluatedSuccess holding it.
C30_StopsAtFirstFailure ==
    EvaluationAborted =>
        \A d \in 2..Len(ev.cs) :
            LET k == ev.cs[d].path[Len(ev.cs[d].path)]
                now == NodeAt(ev.tree, ev.cs[d - 1].path)
                then == NodeAt(hist.evalRoot, ev.cs[d - 1].path)
            IN /\ Len(now.ch) = Len(then.ch)
               /\ k = ev.cs[d - 1].idx + 1
               /\ \A j \in (k + 1)..Len(now.ch) :
                     /\ now.ch[j] = then.ch[j]
                     /\ NodeIds(then.ch[j]) \cap InvokedInRun = {}
               /\ \A j \in 1..(k - 1) :
                     /\ now.ch[j].k # "Intent"
                     /\ then.ch[j].k = "Intent" =>
                           /\ now.ch[j].k = "IntentEvaluatedSuccess"
                           /\ now.ch[j].ch = <<then.ch[j]>>

\* multiply, the third of four intents, failed: the two before it are wrapped, its tool was
\* invoked, the fourth is untouched
C30_Witness ==
    /\ EvaluationAborted
    /\ Len(ev.tree.ch) = 4
    /\ Top(ev.cs).path = <<3>>
    /\ ev.tree.ch[1].k = "IntentEvaluatedSuccess"
    /\ ev.tree.ch[2].k = "IntentEvaluatedSuccess"
    /\ ev.tree.ch[4].k = "Intent"
    /\ Len(trace) = 3
    /\ trace[3].name = "multiply"
    /\ ~trace[3].ok

(***************************************************************************)
(* QueryFill.                                                              *)
(***************************************************************************)
RECURSIVE PlaceholderKinds(_)
\* the variants of the unresolved placeholders of a subtree (children and payload)
PlaceholderKinds(n) ==
    (IF n.k \in UnresolvedKinds THEN {n.k} ELSE {})
      \cup UNION {PlaceholderKinds(n.ch[i]) : i \in 1..Len(n.ch)}
      \cup UNION {PlaceholderKinds(n.aux[i]) : i \in 1..Len(n.aux)}

\* the iteration that calls do_resolution on a QueryFill: it does not pause, it raises the
\* runtime error exactly when the answer carries an abort, and otherwise the QueryFill is
\* replaced by the Value of the answer, Value("unknown") for an answer without the fields
QueryFillStep ==
    (rpc = "running" /\ Len(rs.cs) > 0
       /\ NodeAt(rs.tree, Top(rs.cs).path).k = "QueryFill") =>
      LET path == Top(rs.cs).path
          n == NodeAt(rs.tree, path)
          a == hist'.snap.ans
          new == NodeAt(rs'.tree, path)
          calls == {i \in (Len(rs.hooks) + 1)..Len(rs'.hooks) :
                       rs'.hooks[i].h = "do" /\ rs'.hooks[i].id = n.id}
      IN /\ a \in FillAnswers
         /\ rpc' # "paused"
         /\ rs'.ret # "INTERACTION_REQUESTED"
         /\ Cardinality(calls) = 1
         /\ a.text # OracleFailure =>
              /\ (rs'.err = "RuntimeError: QUERY_FILL aborted") <=> (a.text = "abort")
              /\ (rs'.err # "") <=> (a.text = "abort")
              /\ a.text # "abort" =>
                   /\ \A i \in calls : rs'.hooks[i].res = "NEW_DSL_NODES"
                   /\ new = IF a.text = "malformed" THEN UnknownValue(rs.nid)
                            ELSE Value(rs.nid, a.v)
                   /\ rs'.tree = ReplaceAt(rs.tree, path, new)

\* the first step of a resolver on a tree whose only placeholders are QueryFill nodes
FillOnlyFirstStep ==
    /\ rpc \in {"running", "paused", "done", "raised"}
    /\ ~hist.resumed
    /\ hist.stepTree # <<>>
    /\ PlaceholderKinds(hist.stepTree) = {"QueryFill"}

QueryFillStepOnContext ==
    (rpc = "running" /\ Len(rs.cs) > 0
       /\ NodeAt(rs.tree, Top(rs.cs).path).k = "QueryFill") =>
      LET path == Top(rs.cs).path
          n == NodeAt(rs.tree, path)
          a == hist'.snap.ans
          new == NodeAt(rs'.tree, path)
          calls == {i \in (Len(rs.hooks) + 1)..Len(rs'.hooks) :
                       rs'.hooks[i].h = "do" /\ rs'.hooks[i].id = n.id}
      IN /\ rpc' # "paused"
         /\ rs'.ret # "INTERACTION_REQUESTED"
         /\ Cardinality(calls) = 1
         /\ ~rs.rt.base_model =>
              /\ a = NoAnswer
              /\ rpc' = "raised"
              /\ rs'.err = NoBaseModel
              /\ rs'.log = rs.log
              /\ rs'.tree = rs.tree
         /\ rs.rt.base_model =>
              /\ a \in FillAnswers
              /\ a.text # OracleFailure =>
                   /\ (rs'.err = "RuntimeError: QUERY_FILL aborted") <=> (a.text = "abort")
                   /\ (rs'.err # "") <=> (a.text = "abort")
                   /\ a.text # "abort" =>
                        /\ rs'.log = Append(rs.log, "QueryFill")
                        /\ \A i \in calls : rs'.hooks[i].res = "NEW_DSL_NODES"
                        /\ new = IF a.text = "malformed" THEN UnknownValue(rs.nid)
                                 ELSE Value(rs.nid, a.v)
                        /\ rs'.tree = ReplaceAt(rs.tree, path, new)

QueryUserStep ==
    (rpc = "running" /\ Len(rs.cs) > 0
       /\ NodeAt(rs.tree, Top(rs.cs).path).k = "QueryUser"
       /\ hist'.snap.ans.text # OracleFailure) =>
      LET n == NodeAt(rs.tree, Top(rs.cs).path)
          a == hist'.snap.ans
          state == Top(rs.ss)
          reentry == ~rs.ia.none /\ rs.ia.req = n.id
          calls == {i \in (Len(rs.hooks) + 1)..Len(rs'.hooks) :
                       rs'.hooks[i].h = "do" /\ rs'.hooks[i].id = n.id}
      IN /\ Cardinality(calls) = 1
         /\ ~reentry =>
              /\ a \in UserAnswers
              /\ rs'.log = Append(rs.log, "QueryUser")
              /\ rpc' = "paused"
              /\ rs'.ret = "INTERACTION_REQUESTED"
              /\ \A i \in calls : rs'.hooks[i].res = "INTERACTION_REQUESTED"
              /\ rs'.req.requester = n.id
              /\ rs'.req.message = IF a.text = "user friendly answer" THEN a.text
                                   ELSE "unknown"
              /\ rs'.tree = rs.tree /\ rs'.cs = rs.cs /\ rs'.qna = rs.qna
         /\ (reentry /\ ~rs.ia.consumed) =>
              /\ a \in DslAnswers(rs.nid)
              /\ rs'.log = Append(rs.log,
                                  IF state.intent # NoPath /\ state.slot # NoPath
                                  THEN "slot_resolver" ELSE "intent_sequencer")
              /\ rs'.ia.consumed
              /\ rs'.ret = ""
              /\ IF a.text = RejectedText
                 THEN rpc' = "raised" /\ rs'.err = "ValueError: parse_dsl"
                 ELSE \A i \in calls : rs'.hooks[i].res = "NEW_DSL_NODES"

QueryUserStepOnContext ==
    (rpc = "running" /\ Len(rs.cs) > 0
       /\ NodeAt(rs.tree, Top(rs.cs).path).k = "QueryUser"
       /\ hist'.snap.ans.text # OracleFailure) =>
      LET n == NodeAt(rs.tree, Top(rs.cs).path)
          a == hist'.snap.ans
          state == Top(rs.ss)
          reentry == ~rs.ia.none /\ rs.ia.req = n.id
          calls == {i \in (Len(rs.hooks) + 1)..Len(rs'.hooks) :
                       rs'.hooks[i].h = "do" /\ rs'.hooks[i].id = n.id}
      IN /\ Cardinality(calls) = 1
         /\ (~reentry /\ ~rs.rt.base_model) =>
              /\ a = NoAnswer
              /\ rpc' = "raised"
              /\ rs'.err = NoBaseModel
              /\ rs'.ret = ""
              /\ rs'.req = rs.req
              /\ rs'.log = rs.log
              /\ rs'.tree = rs.tree /\ rs'.qna = rs.qna
         /\ (~reentry /\ rs.rt.base_model) =>
              /\ a \in UserAnswers
              /\ rs'.log = Append(rs.log, "QueryUser")
              /\ rpc' = "paused"
              /\ rs'.ret = "INTERACTION_REQUESTED"
              /\ \A i \in calls : rs'.hooks[i].res = "INTERACTION_REQUESTED"
              /\ rs'.req.requester = n.id
              /\ rs'.req.message = IF a.text = "user friendly answer" THEN a.text
                                   ELSE "unknown"
              /\ rs'.tree = rs.tree /\ rs'.cs = rs.cs /\ rs'.qna = rs.qna
         /\ (reentry /\ ~rs.ia.consumed) =>
              /\ rs.rt.base_model
              /\ a \in DslAnswers(rs.nid)
              /\ rs'.log = Append(rs.log,
                                  IF state.intent # NoPath /\ state.slot # NoPath
                                  THEN "slot_resolver" ELSE "intent_sequencer")
              /\ rs'.ia.consumed
              /\ rs'.ret = ""
              /\ IF a.text = RejectedText
                 THEN rpc' = "raised" /\ rs'.err = "ValueError: parse_dsl"
                 ELSE \A i \in calls : rs'.hooks[i].res = "NEW_DSL_NODES"

RECURSIVE CountKind(_, _)
\* number of nodes of variant k in a subtree
CountKind(n, k) ==
    LET RECURSIVE sum(_)
        sum(i) == IF i > Len(n.ch) THEN 0 ELSE CountKind(n.ch[i], k) + sum(i + 1)
    IN (IF n.k = k THEN 1 ELSE 0) + sum(1)

\* how a step has ended: UNCHANGED on an empty call stack, INTERACTION_REQUESTED, or an error
StepEnded ==
    \/ rpc = "done" /\ rs.ret = "UNCHANGED" /\ Len(rs.cs) = 0 /\ rs.err = ""
    \/ rpc = "paused" /\ rs.ret = "INTERACTION_REQUESTED" /\ rs.err = "" /\ Len(rs.cs) > 0
    \/ rpc = "raised" /\ rs.err # "" /\ rs.ret = ""

RECURSIVE PropagatesOutsideIntent(_)
\* a PropagateSlots node stands in the root list or in a list nested in it, outside every
\* Intent: its Slot children are visited with no intent entered
PropagatesOutsideIntent(n) ==
    CASE n.k = "PropagateSlots" -> TRUE
      [] n.k = "ListElement" -> \E i \in 1..Len(n.ch) : PropagatesOutsideIntent(n.ch[i])
      [] OTHER -> FALSE

RECURSIVE RendersQuotedSibling(_)
\* an Intent of the subtree has a Slot whose sibling Slot holds a FuzzyValue with a quote:
\* pre_resolution of the Slot renders the sibling
RendersQuotedSibling(n) ==
    \/ /\ n.k = "Intent"
       /\ \E i, j \in 1..Len(n.ch) : n.ch[i].name # n.ch[j].name /\ RenderRaises(n.ch[j])
    \/ \E i \in 1..Len(n.ch) : RendersQuotedSibling(n.ch[i])

\* the step calls of the run the tree hist.dsl was given to: the host follows the protocol,
\* the placeholders of the tree are Ask nodes, and every answer held no placeholder
PlainRun ==
    /\ hist.dsl # <<>>
    /\ PlaceholderKinds(hist.dsl) \subseteq {"Ask"}
    /\ ValueAnswersOnly
    /\ StepEnded

SameObservation ==
    /\ aev.out = aev.ref.out
    /\ aev.exc = aev.ref.exc
    /\ aev.tree = aev.ref.tree
    /\ Observed(aev.trace) = aev.ref.calls

\* AsyncEvaluator.evaluate has returned or raised
AsyncEvaluateEnded == aev.pc \in {"done", "escaped"}

\* C34: AsyncEvaluator.evaluate and Evaluator.evaluate are observationally equivalent: on the
\* same tree and the same tool behaviours they produce the same status and error, the same
\* sequence of tool invocations, and the same final tree (the same IntentEvaluatedSuccess and
\* IntentRuntimeErrorResolver replacements at the same positions).
C34_AsyncEquivalent == AsyncEvaluateEnded => SameObservation

(***************************************************************************)
(* A substitution without core node.                                       *)
(***************************************************************************)
\* the step has failed in _replace_current_node_with on "assert len(core_dsl_elements) > 0"
EmptyCoreFailure == rpc = "raised" /\ rs.err = "AssertionError: no core node"

\* C35: when a NEW_DSL_NODES outcome has an empty core replacement (the oracle's answer
\* consists only of PROPAGATE_SLOT(...)), the step fails as a design error and leaves the
\* tree, the traversal call stack and the pending-propagation queue exactly as they were
\* before the failing do_resolution.
C35_EmptyCoreLeavesState ==
    EmptyCoreFailure =>
        /\ rs.tree = hist.snap.tree
        /\ rs.cs = hist.snap.cs
        /\ rs.pend = hist.snap.pend

(***************************************************************************)
(* The queue of propagated slots.                                          *)
(***************************************************************************)
\* an iteration of the machine performs an abort unwind
AbortUnwindDone == rs'.alog.n > rs.alog.n

\* C36: propagated slots are merged only into the Intent that encloses the node whose
\* resolution produced them: the pending-propagation queue is empty whenever an abort
\* unwind has completed and whenever step() returns UNCHANGED, so that slots propagated by
\* an answer that belongs to an aborted intent, or produced outside any intent, never reach
\* a different, later intent.
C36_QueueEmptyAtBoundaries ==
    /\ [][AbortUnwindDone => rs'.pend = <<>>]_vars
    /\ [](rpc = "done" => rs.pend = <<>>)

(***************************************************************************)
(* The assertion of Slot.pre_resolution.                                   *)
(***************************************************************************)
\* C37: the assertion of Slot.pre_resolution that the current intent of the context is not
\* None holds at every visit of a Slot in every reachable state of the resolver, also for
\* the slots visited after an abort unwind that stopped at a list nested in an Intent.
C37_SlotSeesItsIntent == rs.err # "AssertionError: intent is None"


\* C38: whenever a requester consumes the answer of an interaction, the answer was not
\* consumed before: the assertion on the consumed flag fails in no step, whatever
\* Interaction the host passes, the one of a step that raised after consumption and the
\* one of a requester that has been replaced included.
C38_AnswerConsumedOnce == rs.err # "AssertionError: interaction consumed"


\* the loop of resolve() is about to run an iteration
IterationStart == rpc = "running" /\ Len(rs.cs) > 0

\* frame i + 1 holds the child its parent frame i has just descended into
Adjacent(i) ==
    LET P == rs.cs[i]
        C == rs.cs[i + 1]
        p == NodeAt(rs.tree, P.path)
    IN /\ P.idx >= 1
       /\ P.idx <= Len(p.ch)
       /\ C.path = P.path \o <<P.idx>>
       /\ NodeAt(rs.tree, C.path).id = p.ch[P.idx].id

\* the bottom frame is the root list
BottomIsRoot == rs.cs[1].path = <<>> /\ rs.tree.k = "ListElement"

\* every frame's index is within the children of its node
IdxInRange ==
    \A i \in 1..Len(rs.cs) :
        rs.cs[i].idx >= 0 /\ rs.cs[i].idx <= Len(NodeAt(rs.tree, rs.cs[i].path).ch)

\* C39: at the start of every iteration of the resolver's loop the bottom frame is the
\* root list, every frame's idx is between 0 and the number of children of its node, and
\* each frame's node is the child at idx - 1 of the node of the frame below it.
C39_CallStackInvariant ==
    IterationStart =>
        /\ BottomIsRoot
        /\ IdxInRange
        /\ \A i \in 1..(Len(rs.cs) - 1) : Adjacent(i)

====
